---- MODULE Spec2Model ----
(***************************************************************************)
(* Model of the Nosana Terraform provider's on-chain engine:               *)
(*   - the "list" instruction encoder and the job-posting transaction      *)
(*     (DirectJobSubmission, src/unnamed/part_003 lines 1-241);            *)
(*   - the vault funding planner and transfer builder (FundVault,          *)
(*     TopupVault and helpers, src/unnamed/part_003 lines 895-1368);       *)
(*   - the retry/restart controller (StartDeploymentWithRetry,             *)
(*     src/nosana/client.go lines 308-416);                                *)
(*   - the wait_for_completion loop of resourceNosanaJobCreate             *)
(*     (src/nosana/resource_nosana_job_test.go lines 627-732);             *)
(*   - waitForConfirmation (src/unnamed/part_003 lines 1334-1368);         *)
(*   - the handlers of the nosana_job resource                             *)
(*     (src/nosana/resource_nosana_job.go lines 119-286);                  *)
(*   - two StartDeploymentWithRetry calls running on one NosanaAPIClient   *)
(*     (src/nosana/client.go lines 87-95 and 308-416).                     *)
(*                                                                         *)
(* The specifications SpecJob, SpecFund, SpecRetry, SpecWait, SpecConfirm, *)
(* SpecResource and SpecFlows share the module; each one moves only its    *)
(* own variables.                                                          *)
(* SpecTx runs either SpecJob or SpecFund, SpecRetryFair is SpecRetry with *)
(* the call always taking its next step.                                   *)
(*                                                                         *)
(* Amounts: the Go code holds SOL and NOS amounts as float64.  The model   *)
(* holds them as the integer number of lamports (1e-9 SOL) and micro-NOS   *)
(* (1e-6 NOS) that the float64 value stands for.  The comparisons of the   *)
(* code (>=, <, <=) agree with the integer comparisons because             *)
(* float64(n)/1e9 and float64(n)/1e6 are monotone and injective on the     *)
(* magnitudes used.  The float64 -> uint64 conversions of                  *)
(* addSOLInstruction and addNOSInstruction truncate; they are modelled by  *)
(* SOLToLamports and NOSToTokenUnits.                                      *)
(***************************************************************************)
EXTENDS Integers, Sequences, FiniteSets, TLC

VARIABLES
    \* ---- job posting (DirectJobSubmission) ----
    ipfsHash,       \* the content address, as the result base58.Decode gives for it
    timeout,        \* the timeout argument (Go int)
    jobPc,          \* position inside buildAndSubmitJobTransaction
    buildResult,    \* what buildNosanaListInstruction returned: NotBuilt, or [err, ins]
    jobSigned,      \* number of transactions signed by buildAndSubmitJobTransaction
    jobSent,        \* the transactions handed to RPCClient.SendTransaction
    jobErr,         \* the error buildAndSubmitJobTransaction returned ("" = none)
    \* ---- vault funding (FundVault / TopupVault) ----
    rpcURL,         \* c.rpcURL is non-empty
    marketAccount,  \* what GetAccountInfo(market) yields: [ok, data]
    walletLamports, \* the wallet's native balance on chain
    walletNOS,      \* the wallet's NOS token account: [exists, dataLen, amount]
    destATAExists,  \* the vault's NOS token account exists on chain
    vaultBalance,   \* balance map returned by GetVaultBalance: [SOL, NOS]
    fvPc,           \* position inside FundVault / TopupVault
    priceRead,      \* market price FundVault parsed (micro-NOS), NoRead if none
    walletRead1,    \* wallet balance read by the token-funding check, NoRead if none
    walletRead2,    \* wallet balance read by the native top-up adaptation, NoRead if none
    solNeeded,      \* planned native amount (lamports)
    nosNeeded,      \* planned token amount (micro-NOS)
    instructions,   \* TopupVault's instruction slice
    blockhashes,    \* number of GetLatestBlockhash calls of the funding flow
    fundSent,       \* transactions handed to SendTransactionWithOpts (instruction lists)
    fundSigned,     \* number of transactions signed by executeTokenManagerTransaction
    confirmCalls,   \* number of waitForConfirmation calls of the funding flow
    tokenLookups,   \* outcome of addNOSInstruction's two GetAccountInfo calls: [src, dst]
    fvErr,          \* the error FundVault returned ("" = none)
    envSteps,       \* number of wallet-balance changes made by other parties
    \* ---- retry / restart controller (StartDeploymentWithRetry) ----
    maxRetries,     \* the maxRetries argument
    attempt,        \* the outer loop counter
    restartAttempt, \* the nested loop counter
    rPc,            \* position inside StartDeploymentWithRetry
    deployment,     \* the deployment the last successful GetDeployment returned
    startReqs,      \* number of POST /start requests sent
    outerStarts,    \* ... of which sent by the outer loop (line 322), one per attempt
    statusReqs,     \* number of GET /deployment requests sent
    restartReqs,    \* number of POST /restart requests sent
    restartsThisAttempt, \* POST /restart requests sent during the current outer attempt
    sawExact60,     \* some observed ERROR deployment carried the exact 60 s phrase
    sawExact60Early,\* ... and was observed on an attempt < maxRetries
    rResult,        \* what StartDeploymentWithRetry returned: NoResult, or [err, dep]
    fallbackOk,     \* outcome of the last direct start after a failed restart: none, ok, failed
    \* ---- wait_for_completion loop of resourceNosanaJobCreate ----
    waitForCompletion, \* the wait_for_completion attribute
    completionTimeout, \* the completion_timeout_seconds attribute
    wPc,            \* position inside resourceNosanaJobCreate after the start
    now,            \* seconds since timeoutChan and tick were created
    tickReady,      \* tick.C holds a tick (the channel buffers one)
    nextTick,       \* time at which the ticker fires next
    dStatus,        \* the resource's status attribute
    idSet,          \* the resource ID is set (d.SetId("") clears it)
    retryCount,     \* the loop's retryCount
    cooldowns,      \* number of 45 s sleeps of the loop
    autoRestarts,   \* number of StartDeploymentWithRetry calls made by the loop
    wErr,           \* the diagnostics Create returned ("" = none)
    pollCount,      \* ticks handled so far (GetDeployment calls), counted up to PollCountCap
    leadingNonStable, \* how many of the first polls in a row returned DRAFT/STARTING/STOPPING
    allNonStable,   \* no poll so far returned a status outside DRAFT/STARTING/STOPPING
    lastPoll,       \* what the last poll returned: "none", "FAILED" or the status
    errorAfterBudget, \* a poll saw ERROR with the 60 s phrase when retryCount was 3
    exitStatus,     \* the status attribute when the loop ended ("" = not ended)
    \* ---- waitForConfirmation ----
    sigStatus,      \* what the ledger holds for the signature: [level, err]
    sigAtStart,     \* sigStatus when waitForConfirmation was called
    cPc,            \* position inside waitForConfirmation
    cNow,           \* seconds since timeout and ticker were created
    cTickReady,     \* ticker.C holds a tick
    cNextTick,      \* time at which the ticker fires next
    cLastPoll,      \* what the last GetSignatureStatuses call gave: [kind, level, err]
    cPolls,         \* GetSignatureStatuses calls made, counted up to ConfirmPollCap
    cRpcFailed,     \* some GetSignatureStatuses call returned an RPC error
    cErr,           \* the error waitForConfirmation returned ("" = nil)
    \* ---- nosana_job resource handlers (resource_nosana_job.go) ----
    resOp,          \* the handler Terraform called last: none, create, read, update, delete
    resPc,          \* position inside that handler ("idle" before any, "done" after return)
    resId,          \* d.Id() ("" = not in state)
    resStatus,      \* the status attribute
    resState,       \* attribute values of the stored state: [job_content, replicas, timeout, strategy]
    resConfig,      \* attribute values of the configuration being applied
    resChanged,     \* attributes for which d.HasChange held in the last Update
    remoteStatus,   \* status of the deployment at the service ("none" = no deployment)
    resRequests,    \* kinds of request the current handler has sent
    resErr,         \* the diagnostics error the handler returned ("" = none)
    fundFailed,     \* FundVault returned an error in the current Create
    waitPolls,      \* iterations made by the 70 s wait of Create
    \* ---- two concurrent StartDeploymentWithRetry calls ----
    client,         \* the fields of the NosanaAPIClient both calls use
    fl,             \* per call: its arguments, loop counters, position and result
    reqLog,         \* per call: the requests it has sent, as [kind, id]
    hist            \* per call: the responses it has received, in order

jobVars == <<ipfsHash, timeout, jobPc, buildResult, jobSigned, jobSent, jobErr>>

fundVars == <<rpcURL, marketAccount, walletLamports, walletNOS, destATAExists,
              vaultBalance, fvPc, priceRead, walletRead1, walletRead2, solNeeded,
              nosNeeded, instructions, blockhashes, fundSent, fundSigned,
              confirmCalls, tokenLookups, fvErr, envSteps>>

retryVars == <<maxRetries, attempt, restartAttempt, rPc, deployment, startReqs, outerStarts,
               statusReqs, restartReqs, restartsThisAttempt, sawExact60,
               sawExact60Early, rResult, fallbackOk>>

waitVars == <<waitForCompletion, completionTimeout, wPc, now, tickReady, nextTick,
              dStatus, idSet, retryCount, cooldowns, autoRestarts, wErr, pollCount,
              leadingNonStable, allNonStable, lastPoll, errorAfterBudget, exitStatus>>

confVars == <<sigStatus, sigAtStart, cPc, cNow, cTickReady, cNextTick, cLastPoll,
              cPolls, cRpcFailed, cErr>>

resVars == <<resOp, resPc, resId, resStatus, resState, resConfig, resChanged,
             remoteStatus, resRequests, resErr, fundFailed, waitPolls>>

flowVars == <<client, fl, reqLog, hist>>

vars == <<jobVars, fundVars, retryVars, waitVars, confVars, resVars, flowVars>>

(***************************************************************************)
(*                    Part 1: the instruction encoder                      *)
(***************************************************************************)

\* Bounds of the content-address inputs.
MaxExtraBytes == 2      \* decoded bytes beyond the 34th
MaxBodyPatterns == 2    \* distinct 32-byte digests

IpfsMinLen == 34
DigestLen == 32
PrefixLen == 2
TimeoutLen == 8

NotBuilt == [err |-> "not-built"]
\* the nil *solana.GenericInstruction
NoInstruction == [ProgramID |-> "nil", Accounts |-> <<>>, Data |-> <<>>]

\* sha256("global:list")[:8]
MethodSelector == <<54, 174, 193, 67, 17, 41, 132, 38>>

\* binary.LittleEndian.PutUint64(b, uint64(v)): the n low bytes of v in two's
\* complement, least significant first (\div rounds down, so -1 \div 256 = -1).
RECURSIVE LittleEndian(_, _)
LittleEndian(v, n) ==
    IF n = 0 THEN <<>> ELSE <<v % 256>> \o LittleEndian(v \div 256, n - 1)

\* instructionData built from the first 32 decoded bytes (prefix not skipped)
ListInstructionData_NoSkip(ipfsBytes, t) ==
    MethodSelector \o SubSeq(ipfsBytes, 1, DigestLen) \o LittleEndian(t, TimeoutLen)

ListInstructionData(ipfsBytes, t) ==
    LET ipfsHashBytes == SubSeq(ipfsBytes, PrefixLen + 1, IpfsMinLen)
        timeoutBytes == LittleEndian(t, TimeoutLen)
    IN  MethodSelector \o ipfsHashBytes \o timeoutBytes

Meta(key, writable, signer) ==
    [PublicKey |-> key, IsWritable |-> writable, IsSigner |-> signer]

ListAccounts_AuthorityBeforePayer(jobAccount, runAccount, market, userTokenAccount, vaultAccount, wallet) ==
    << Meta(jobAccount, TRUE, TRUE),
       Meta(market, TRUE, FALSE),
       Meta(runAccount, TRUE, TRUE),
       Meta(userTokenAccount, TRUE, FALSE),
       Meta(vaultAccount, TRUE, FALSE),
       Meta(wallet, FALSE, TRUE),
       Meta(wallet, TRUE, TRUE),
       Meta("token-program", FALSE, FALSE),
       Meta("system-program", FALSE, FALSE) >>

ListAccounts(jobAccount, runAccount, market, userTokenAccount, vaultAccount, wallet) ==
    << Meta(jobAccount, TRUE, TRUE),
       Meta(market, TRUE, FALSE),
       Meta(runAccount, TRUE, TRUE),
       Meta(userTokenAccount, TRUE, FALSE),
       Meta(vaultAccount, TRUE, FALSE),
       Meta(wallet, TRUE, TRUE),
       Meta(wallet, FALSE, TRUE),
       Meta("token-program", FALSE, FALSE),
       Meta("system-program", FALSE, FALSE) >>

\* h is the content address given by what base58.Decode makes of it:
\* [ok |-> FALSE] when it does not decode, else [ok |-> TRUE, bytes |-> ...].
buildNosanaListInstruction(h, t, jobAccount, runAccount, market, userTokenAccount, vaultAccount, programID, wallet) ==
    IF ~h.ok THEN [err |-> "failed to decode IPFS hash", ins |-> NoInstruction]
    ELSE IF Len(h.bytes) < IpfsMinLen
    THEN [err |-> "invalid IPFS hash length", ins |-> NoInstruction]
    ELSE [err |-> "",
          ins |-> [ProgramID |-> programID,
                   Accounts |-> ListAccounts(jobAccount, runAccount, market,
                                             userTokenAccount, vaultAccount, wallet),
                   Data |-> ListInstructionData(h.bytes, t)]]

\* ---- inputs ----
CidPrefix == <<18, 32>>
Digest(k) == [i \in 1..DigestLen |-> (k * 37 + i * 5) % 256]
Tails == UNION { [1..n -> {7, 9}] : n \in 0..MaxExtraBytes }
ShortLens == {0, 1, 2, 33}
FullAddresses == { CidPrefix \o Digest(k) \o tl : k \in 1..MaxBodyPatterns, tl \in Tails }
IpfsInputs ==
    {[ok |-> FALSE, bytes |-> <<>>]}
    \cup { [ok |-> TRUE, bytes |-> b] : b \in FullAddresses }
    \cup { [ok |-> TRUE, bytes |-> SubSeq(CidPrefix \o Digest(k), 1, n)] :
              k \in 1..MaxBodyPatterns, n \in ShortLens }
TimeoutInputs == {0, 1, 60, 255, 256, 3600, 65536, 16909060, 2147483647, -1, -256}

\* ---- buildAndSubmitJobTransaction, step by step ----
Wallet == "wallet"
JobsProgram == "nosJhNRqr2bc9g1nfGDcXXTXvYUmxD4cVwy2pMWhrYM"
JobMarket == "market"

\* Address derivation and GetLatestBlockhash; each can fail.
JobPrepare ==
    /\ jobPc = "prepare"
    /\ \E failure \in {"", "failed to find user token account",
                       "failed to find vault PDA", "failed to get blockhash"} :
          IF failure = ""
          THEN /\ jobPc' = "build"
               /\ jobErr' = jobErr
          ELSE /\ jobPc' = "returned"
               /\ jobErr' = failure
    /\ UNCHANGED <<ipfsHash, timeout, buildResult, jobSigned, jobSent>>

\* The call of buildNosanaListInstruction whose error is ignored by the caller.
JobBuildInstruction_IgnoreError ==
    /\ jobPc = "build"
    /\ buildResult' = buildNosanaListInstruction(ipfsHash, timeout, "job", "run",
                          JobMarket, "user-token-account", "vault-pda", JobsProgram, Wallet)
    /\ jobPc' = "sign"
    /\ UNCHANGED <<ipfsHash, timeout, jobSigned, jobSent, jobErr>>

JobBuildInstruction ==
    /\ jobPc = "build"
    /\ LET r == buildNosanaListInstruction(ipfsHash, timeout, "job", "run",
                    JobMarket, "user-token-account", "vault-pda", JobsProgram, Wallet)
       IN  /\ buildResult' = r
           /\ IF r.err # ""
              THEN /\ jobPc' = "returned"
                   /\ jobErr' = "failed to build instruction"
              ELSE /\ jobPc' = "sign"
                   /\ jobErr' = jobErr
    /\ UNCHANGED <<ipfsHash, timeout, jobSigned, jobSent>>

\* The signers a transaction needs: the fee payer and every account flagged
\* IsSigner in one of its instructions.
RequiredSigners(payer, insList) ==
    {payer} \cup { insList[i].Accounts[j].PublicKey :
                      <<i, j>> \in { <<a, b>> \in (DOMAIN insList) \X (1..9) :
                                       /\ b \in DOMAIN insList[a].Accounts
                                       /\ insList[a].Accounts[b].IsSigner } }

\* The private keys buildAndSubmitJobTransaction hands to tx.Sign.
JobSigners == {Wallet, "job", "run"}

\* solana.NewTransaction and tx.Sign.
JobSign ==
    /\ jobPc = "sign"
    /\ \E created \in BOOLEAN :
          IF ~created
          THEN /\ jobPc' = "returned"
               /\ jobErr' = "failed to create transaction"
               /\ jobSigned' = jobSigned
          ELSE IF ~(RequiredSigners(Wallet, <<buildResult.ins>>) \subseteq JobSigners)
          THEN /\ jobPc' = "returned"
               /\ jobErr' = "failed to sign transaction"
               /\ jobSigned' = jobSigned
          ELSE /\ jobPc' = "send"
               /\ jobSigned' = jobSigned + 1
               /\ jobErr' = jobErr
    /\ UNCHANGED <<ipfsHash, timeout, buildResult, jobSent>>

JobSend ==
    /\ jobPc = "send"
    /\ \E ok \in BOOLEAN :
          IF ok
          THEN /\ jobSent' = Append(jobSent, <<buildResult.ins>>)
               /\ jobErr' = jobErr
          ELSE /\ jobSent' = jobSent
               /\ jobErr' = "failed to send transaction"
    /\ jobPc' = "returned"
    /\ UNCHANGED <<ipfsHash, timeout, buildResult, jobSigned>>

(***************************************************************************)
(*            Part 2: the funding planner and transfer builder             *)
(***************************************************************************)

MaxEnvSteps == 1            \* wallet-balance changes by other parties during one call

SolTarget == 3000000              \* solNeeded := 0.003 (lamports)
MinSOLForNOSTransfer == 3000000   \* minSOLForNOSTransfer := 0.003 (lamports)
FeeBuffer == 100000               \* walletSOL - 0.0001 (lamports)
MarketMinLen == 48
PriceOffset == 40
TokenDataMinLen == 64
TokenAmountEnd == 72

NoRead == 0 - 1
Vault == "vault"
NosMint == "nosXBVoaCTtYdLvKY6Csb4AC8JCdQKKAaWYtx2ZMoo7"

\* ---- inputs ----
WalletBalances == {0, 100000, 100001, 1000000, 2999999, 3000000, 3100000, 10000000}
SpendTargets == {0, 1000000}
Prices == {0, 1001, 2000000}
Zeros(n) == [i \in 1..n |-> 0]
MarketData(price) == Zeros(PriceOffset) \o LittleEndian(price, 8)
MarketInputs ==
    {[ok |-> FALSE, data |-> <<>>], [ok |-> TRUE, data |-> Zeros(PriceOffset)]}
    \cup { [ok |-> TRUE, data |-> MarketData(pr)] : pr \in Prices }
WalletNOSInputs ==
    {[exists |-> FALSE, dataLen |-> 0, amount |-> 0],
     [exists |-> TRUE, dataLen |-> 32, amount |-> 0],
     [exists |-> TRUE, dataLen |-> 70, amount |-> 0]}
    \cup { [exists |-> TRUE, dataLen |-> 165, amount |-> a] : a \in {1000, 5000000} }
VaultBalances == { [SOL |-> a, NOS |-> b] : a \in {0, SolTarget}, b \in {0, 2000000} }

\* The u64 little-endian field FundVault reads at data[40:48].
RECURSIVE U64LE(_)
U64LE(bytes) ==
    IF bytes = <<>> THEN 0 ELSE Head(bytes) + 256 * U64LE(Tail(bytes))

ParseJobPrice(data) == U64LE(SubSeq(data, PriceOffset + 1, MarketMinLen))

\* lamports := uint64(amount * 1e9) for the planned amounts of the model.  The
\* planned amount fl(fl(100001/1e9) - fl(0.0001)) is just below 1e-9 and
\* truncates to 0; every other planned amount of WalletBalances converts exactly.
SOLToLamports(amount) == IF amount = 1 THEN 0 ELSE amount

\* tokenAmount := uint64(amount * 1e6) where amount = float64(price)/1e6.  In
\* IEEE double arithmetic (1001/1e6)*1e6 is just below 1001 and truncates to
\* 1000; the other prices of the model convert exactly.
NOSToTokenUnits(amount) == IF amount = 1001 THEN 1000 ELSE amount

Min(a, b) == IF a < b THEN a ELSE b

\* Lines 931-951: the token amount planned for a parsed price and the outcome
\* of the wallet balance read (bal = NoRead when GetBalance failed).
PlanNOS_StrictThreshold(price, bal) ==
    IF price = 0 THEN 0
    ELSE IF bal # NoRead /\ bal > MinSOLForNOSTransfer THEN price
    ELSE 0

PlanNOS_IgnoreBalance(price, bal) == price

PlanNOS(price, bal) ==
    IF price = 0 THEN 0
    ELSE IF bal # NoRead
         THEN IF bal >= MinSOLForNOSTransfer THEN price ELSE 0
         ELSE 0

\* Lines 963-972: the native amount planned for a wallet balance that was read.
PlanSOL_NoBuffer(bal) == Min(bal, SolTarget)

PlanSOL(bal) ==
    LET maxAffordable == IF bal - FeeBuffer < 0 THEN 0 ELSE bal - FeeBuffer
    IN  IF maxAffordable < SolTarget THEN maxAffordable ELSE SolTarget

FundReturn(e) ==
    /\ fvPc' = "returned"
    /\ fvErr' = e

\* Step 1 (lines 898-905): GetVaultBalance.
FV_GetVaultBalance ==
    /\ fvPc = "vault_balance"
    /\ \/ /\ FundReturn("failed to get vault balance")
          /\ UNCHANGED vaultBalance
       \/ /\ \E b \in VaultBalances : vaultBalance' = b
          /\ fvPc' = "query_market"
          /\ UNCHANGED fvErr
    /\ UNCHANGED <<rpcURL, tokenLookups, fundSigned, confirmCalls, marketAccount, walletLamports, walletNOS, destATAExists,
                   priceRead, walletRead1, walletRead2, solNeeded, nosNeeded,
                   instructions, blockhashes, fundSent, envSteps>>

\* Step 2, token part (lines 911-957).
FV_QueryMarket ==
    /\ fvPc = "query_market"
    /\ IF ~rpcURL
       THEN UNCHANGED <<priceRead, walletRead1, nosNeeded>>
       ELSE IF marketAccount.ok /\ Len(marketAccount.data) >= MarketMinLen
       THEN LET price == ParseJobPrice(marketAccount.data)
            IN  /\ priceRead' = price
                /\ IF price = 0
                   THEN /\ nosNeeded' = PlanNOS(price, NoRead)
                        /\ UNCHANGED walletRead1
                   ELSE \E berr \in BOOLEAN :
                           LET bal == IF berr THEN NoRead ELSE walletLamports
                           IN  /\ walletRead1' = bal
                               /\ nosNeeded' = PlanNOS(price, bal)
       ELSE /\ nosNeeded' = 0
            /\ UNCHANGED <<priceRead, walletRead1>>
    /\ fvPc' = "adapt_sol"
    /\ UNCHANGED <<rpcURL, tokenLookups, fundSigned, confirmCalls, marketAccount, walletLamports, walletNOS, destATAExists,
                   vaultBalance, walletRead2, solNeeded, instructions, blockhashes,
                   fundSent, fvErr, envSteps>>

\* Step 2, native part (lines 959-981).
FV_AdaptSOL ==
    /\ fvPc = "adapt_sol"
    /\ \E berr \in BOOLEAN :
          LET read == rpcURL /\ ~berr
              planned == IF read THEN PlanSOL(walletLamports) ELSE solNeeded
          IN  /\ walletRead2' = IF read THEN walletLamports ELSE NoRead
              /\ solNeeded' = planned
              /\ IF planned <= 0
                 THEN FundReturn("insufficient SOL for transaction fees")
                 ELSE /\ fvPc' = "decide"
                      /\ UNCHANGED fvErr
    /\ UNCHANGED <<rpcURL, tokenLookups, fundSigned, confirmCalls, marketAccount, walletLamports, walletNOS, destATAExists,
                   vaultBalance, priceRead, walletRead1, nosNeeded, instructions,
                   blockhashes, fundSent, envSteps>>

\* Line 983: does the vault hold less than planned?
FV_Decide ==
    /\ fvPc = "decide"
    /\ IF vaultBalance.SOL < solNeeded \/ vaultBalance.NOS < nosNeeded
       THEN /\ fvPc' = "add_sol"
            /\ UNCHANGED fvErr
       ELSE FundReturn("")
    /\ UNCHANGED <<rpcURL, tokenLookups, fundSigned, confirmCalls, marketAccount, walletLamports, walletNOS, destATAExists,
                   vaultBalance, priceRead, walletRead1, walletRead2, solNeeded,
                   nosNeeded, instructions, blockhashes, fundSent, envSteps>>

\* ---- TopupVault (lines 1065-1115) ----
TransferSOLInstruction(lamports, source, destination) ==
    [ProgramID |-> "system-program",
     Kind |-> "Transfer",
     Accounts |-> <<Meta(source, TRUE, TRUE), Meta(destination, TRUE, FALSE)>>,
     Amount |-> lamports]

createAssociatedTokenAccountInstruction(payer, ata, owner, mint) ==
    [ProgramID |-> "associated-token-program",
     Kind |-> "Create",
     Accounts |-> <<Meta(payer, TRUE, TRUE), Meta(ata, TRUE, FALSE),
                    Meta(owner, FALSE, FALSE), Meta(mint, FALSE, FALSE),
                    Meta("system-program", FALSE, FALSE),
                    Meta("token-program", FALSE, FALSE)>>,
     Amount |-> 0]

createSPLTokenTransferInstruction(source, destination, owner, amount) ==
    [ProgramID |-> "token-program",
     Kind |-> "TransferChecked",
     Accounts |-> <<Meta(source, TRUE, FALSE), Meta(NosMint, FALSE, FALSE),
                    Meta(destination, TRUE, FALSE), Meta(owner, FALSE, TRUE)>>,
     Amount |-> amount]

ATA(owner) == <<"ata", owner>>

\* addSOLInstruction (lines 1118-1149): the error it returns ("" = none) and the
\* instruction slice it leaves, for the result of its own GetBalance call.
addSOLInstruction(ins, source, destination, amount, balanceOk, balance) ==
    LET lamports == SOLToLamports(amount)
    IN  IF ~balanceOk THEN [err |-> "failed to get source balance", ins |-> ins]
        ELSE IF balance < lamports THEN [err |-> "insufficient SOL balance", ins |-> ins]
        ELSE [err |-> "",
              ins |-> Append(ins, TransferSOLInstruction(lamports, source, destination))]

\* getNOSTokenAccountWithBalance (lines 1259-1286) for the token account acct.
\* A data slice of 64..71 bytes passes the length check and then panics in
\* data[64:72].
getNOSTokenAccountWithBalance(acct) ==
    IF ~acct.exists THEN [err |-> "NOS token account does not exist on source", balance |-> 0]
    ELSE IF acct.dataLen < TokenDataMinLen THEN [err |-> "invalid token account data", balance |-> 0]
    ELSE IF acct.dataLen < TokenAmountEnd THEN [err |-> "panic", balance |-> 0]
    ELSE [err |-> "", balance |-> acct.amount]

\* getNOSTokenAccountForDestination (lines 1289-1305): the account is to be
\* created whenever GetAccountInfo returned an error for it.
getNOSTokenAccountForDestination(found) ==
    [needsCreate |-> ~found]

\* What GetAccountInfo gives for an account: the account, or an error when the
\* account does not exist or the RPC call failed.
NoAccount == [exists |-> FALSE, dataLen |-> 0, amount |-> 0]
NoLookups == [src |-> "none", dst |-> "none"]

\* addNOSInstruction that prepends the create instruction unconditionally.
addNOSInstruction_AlwaysCreate(ins, source, destination, amount, acct, destFound) ==
    LET tokenAmount == NOSToTokenUnits(amount)
        src == getNOSTokenAccountWithBalance(acct)
        withCreate == Append(ins, createAssociatedTokenAccountInstruction(
                                      source, ATA(destination), destination, NosMint))
    IN  IF src.err = "panic" THEN [err |-> "panic", ins |-> ins]
        ELSE IF src.err # "" THEN [err |-> "failed to get source NOS account", ins |-> ins]
        ELSE IF src.balance < tokenAmount THEN [err |-> "insufficient NOS balance", ins |-> ins]
        ELSE [err |-> "",
              ins |-> Append(withCreate, createSPLTokenTransferInstruction(
                                             ATA(source), ATA(destination), source, tokenAmount))]

\* addNOSInstruction (lines 1152-1199).
addNOSInstruction(ins, source, destination, amount, acct, destFound) ==
    LET tokenAmount == NOSToTokenUnits(amount)
        src == getNOSTokenAccountWithBalance(acct)
        needsDestinationAccount == getNOSTokenAccountForDestination(destFound).needsCreate
        withCreate == IF needsDestinationAccount
                      THEN Append(ins, createAssociatedTokenAccountInstruction(
                                           source, ATA(destination), destination, NosMint))
                      ELSE ins
    IN  IF src.err = "panic" THEN [err |-> "panic", ins |-> ins]
        ELSE IF src.err # "" THEN [err |-> "failed to get source NOS account", ins |-> ins]
        ELSE IF src.balance < tokenAmount THEN [err |-> "insufficient NOS balance", ins |-> ins]
        ELSE [err |-> "",
              ins |-> Append(withCreate, createSPLTokenTransferInstruction(
                                             ATA(source), ATA(destination), source, tokenAmount))]

\* Step 3 of TopupVault with the balance taken from the planner's read.
TV_AddSOL_StaleBalance ==
    /\ fvPc = "add_sol"
    /\ IF solNeeded > 0
       THEN \E berr \in BOOLEAN :
               LET r == addSOLInstruction(instructions, Wallet, Vault, solNeeded,
                                          rpcURL /\ ~berr, walletRead2)
               IN  /\ instructions' = r.ins
                   /\ IF r.err # ""
                      THEN FundReturn("failed to topup vault: failed to add SOL instruction")
                      ELSE /\ fvPc' = "add_nos"
                           /\ UNCHANGED fvErr
       ELSE /\ fvPc' = "add_nos"
            /\ UNCHANGED <<instructions, fvErr>>
    /\ UNCHANGED <<rpcURL, tokenLookups, fundSigned, confirmCalls, marketAccount,
                   walletLamports, walletNOS, destATAExists, vaultBalance, priceRead,
                   walletRead1, walletRead2, solNeeded, nosNeeded, blockhashes,
                   fundSent, envSteps>>

\* Step 3 of TopupVault (lines 1084-1091).
TV_AddSOL ==
    /\ fvPc = "add_sol"
    /\ IF solNeeded > 0
       THEN \E berr \in BOOLEAN :
               LET r == addSOLInstruction(instructions, Wallet, Vault, solNeeded,
                                          rpcURL /\ ~berr, walletLamports)
               IN  /\ instructions' = r.ins
                   /\ IF r.err # ""
                      THEN FundReturn("failed to topup vault: failed to add SOL instruction")
                      ELSE /\ fvPc' = "add_nos"
                           /\ UNCHANGED fvErr
       ELSE /\ fvPc' = "add_nos"
            /\ UNCHANGED <<instructions, fvErr>>
    /\ UNCHANGED <<rpcURL, tokenLookups, fundSigned, confirmCalls, marketAccount, walletLamports, walletNOS, destATAExists,
                   vaultBalance, priceRead, walletRead1, walletRead2, solNeeded,
                   nosNeeded, blockhashes, fundSent, envSteps>>

\* Step 4 of TopupVault guarded by nosAmount >= 0.
TV_AddNOS_NoGuard ==
    /\ fvPc = "add_nos"
    /\ IF nosNeeded >= 0
       THEN \E srcErr \in BOOLEAN, dstErr \in BOOLEAN :
               LET acct == IF srcErr THEN NoAccount ELSE walletNOS
                   found == destATAExists /\ ~dstErr
                   src == getNOSTokenAccountWithBalance(acct)
                   reachedDst == src.err = "" /\ src.balance >= NOSToTokenUnits(nosNeeded)
                   r == addNOSInstruction(instructions, Wallet, Vault, nosNeeded,
                                          acct, found)
               IN  /\ tokenLookups' =
                         [src |-> IF srcErr THEN "rpc_error"
                                  ELSE IF walletNOS.exists THEN "found" ELSE "not_found",
                          dst |-> IF ~reachedDst THEN "none"
                                  ELSE IF dstErr THEN "rpc_error"
                                  ELSE IF destATAExists THEN "found" ELSE "not_found"]
                   /\ IF r.err = "panic"
                      THEN /\ fvPc' = "panicked"
                           /\ UNCHANGED <<instructions, fvErr>>
                      ELSE /\ instructions' = r.ins
                           /\ fvPc' = "execute"
                           /\ UNCHANGED fvErr
       ELSE /\ fvPc' = "execute"
            /\ UNCHANGED <<instructions, fvErr, tokenLookups>>
    /\ UNCHANGED <<rpcURL, fundSigned, confirmCalls, marketAccount, walletLamports,
                   walletNOS, destATAExists, vaultBalance, priceRead, walletRead1,
                   walletRead2, solNeeded, nosNeeded, blockhashes, fundSent, envSteps>>

\* Step 4 of TopupVault (lines 1093-1101): an error of addNOSInstruction is
\* logged and the batch goes on without the token transfer.
TV_AddNOS ==
    /\ fvPc = "add_nos"
    /\ IF nosNeeded > 0
       THEN \E srcErr \in BOOLEAN, dstErr \in BOOLEAN :
               LET acct == IF srcErr THEN NoAccount ELSE walletNOS
                   found == destATAExists /\ ~dstErr
                   src == getNOSTokenAccountWithBalance(acct)
                   reachedDst == src.err = "" /\ src.balance >= NOSToTokenUnits(nosNeeded)
                   r == addNOSInstruction(instructions, Wallet, Vault, nosNeeded,
                                          acct, found)
               IN  /\ tokenLookups' =
                         [src |-> IF srcErr THEN "rpc_error"
                                  ELSE IF walletNOS.exists THEN "found" ELSE "not_found",
                          dst |-> IF ~reachedDst THEN "none"
                                  ELSE IF dstErr THEN "rpc_error"
                                  ELSE IF destATAExists THEN "found" ELSE "not_found"]
                   /\ IF r.err = "panic"
                      THEN /\ fvPc' = "panicked"
                           /\ UNCHANGED <<instructions, fvErr>>
                      ELSE /\ instructions' = r.ins
                           /\ fvPc' = "execute"
                           /\ UNCHANGED fvErr
       ELSE /\ fvPc' = "execute"
            /\ UNCHANGED <<instructions, fvErr, tokenLookups>>
    /\ UNCHANGED <<rpcURL, fundSigned, confirmCalls, marketAccount, walletLamports,
                   walletNOS, destATAExists, vaultBalance, priceRead, walletRead1,
                   walletRead2, solNeeded, nosNeeded, blockhashes, fundSent, envSteps>>

\* Step 5 of TopupVault (lines 1103-1112) with the first half of
\* executeTokenManagerTransaction (lines 1205-1231): blockhash, transaction, signature.
TV_BuildAndSign ==
    /\ fvPc = "execute"
    /\ IF Len(instructions) > 0
       THEN /\ blockhashes' = blockhashes + 1
            /\ \E failure \in {"", "failed to get latest blockhash",
                               "failed to create final transaction"} :
                  IF failure # ""
                  THEN /\ FundReturn("failed to topup vault: TokenManager transaction failed")
                       /\ UNCHANGED fundSigned
                  ELSE IF ~(RequiredSigners(Wallet, instructions) \subseteq {Wallet})
                  THEN /\ FundReturn("failed to topup vault: TokenManager transaction failed")
                       /\ UNCHANGED fundSigned
                  ELSE /\ fvPc' = "send"
                       /\ fundSigned' = fundSigned + 1
                       /\ UNCHANGED fvErr
       ELSE /\ fvPc' = "update_balance"
            /\ UNCHANGED <<blockhashes, fundSigned, fvErr>>
    /\ UNCHANGED <<rpcURL, tokenLookups, confirmCalls, marketAccount, walletLamports, walletNOS, destATAExists,
                   vaultBalance, priceRead, walletRead1, walletRead2, solNeeded,
                   nosNeeded, instructions, fundSent, envSteps>>

\* SendTransactionWithOpts handed the first instruction of the batch only.
TV_Send_FirstOnly ==
    /\ fvPc = "send"
    /\ \E ok \in BOOLEAN :
          IF ok
          THEN /\ fundSent' = Append(fundSent, <<instructions[1]>>)
               /\ fvPc' = "confirm"
               /\ UNCHANGED fvErr
          ELSE /\ FundReturn("failed to topup vault: TokenManager transaction failed")
               /\ UNCHANGED fundSent
    /\ UNCHANGED <<rpcURL, tokenLookups, fundSigned, confirmCalls, marketAccount,
                   walletLamports, walletNOS, destATAExists, vaultBalance, priceRead,
                   walletRead1, walletRead2, solNeeded, nosNeeded, instructions,
                   blockhashes, envSteps>>

\* SendTransactionWithOpts with its error ignored.
TV_Send_IgnoreError ==
    /\ fvPc = "send"
    /\ \E ok \in BOOLEAN :
          /\ fundSent' = IF ok THEN Append(fundSent, instructions) ELSE fundSent
          /\ fvPc' = "confirm"
          /\ UNCHANGED fvErr
    /\ UNCHANGED <<rpcURL, tokenLookups, fundSigned, confirmCalls, marketAccount, walletLamports,
                   walletNOS, destATAExists, vaultBalance, priceRead, walletRead1,
                   walletRead2, solNeeded, nosNeeded, instructions, blockhashes,
                   envSteps>>

\* SendTransactionWithOpts (lines 1233-1244).
TV_Send ==
    /\ fvPc = "send"
    /\ \E ok \in BOOLEAN :
          IF ok
          THEN /\ fundSent' = Append(fundSent, instructions)
               /\ fvPc' = "confirm"
               /\ UNCHANGED fvErr
          ELSE /\ FundReturn("failed to topup vault: TokenManager transaction failed")
               /\ UNCHANGED fundSent
    /\ UNCHANGED <<rpcURL, tokenLookups, fundSigned, confirmCalls, marketAccount, walletLamports, walletNOS, destATAExists,
                   vaultBalance, priceRead, walletRead1, walletRead2, solNeeded,
                   nosNeeded, instructions, blockhashes, envSteps>>

\* waitForConfirmation (lines 1246-1250), by its three outcomes.
TV_Confirm ==
    /\ fvPc = "confirm"
    /\ confirmCalls' = confirmCalls + 1
    /\ \E outcome \in {"confirmed", "failed", "timeout"} :
          IF outcome = "confirmed"
          THEN /\ fvPc' = "update_balance"
               /\ UNCHANGED fvErr
          ELSE FundReturn("failed to topup vault: TokenManager transaction failed")
    /\ UNCHANGED <<rpcURL, tokenLookups, fundSigned, marketAccount, walletLamports, walletNOS, destATAExists,
                   vaultBalance, priceRead, walletRead1, walletRead2, solNeeded,
                   nosNeeded, instructions, blockhashes, fundSent, envSteps>>

\* Step 3 of FundVault (lines 994-1003): a failure of UpdateVaultBalance is logged.
FV_UpdateVaultBalance ==
    /\ fvPc = "update_balance"
    /\ FundReturn("")
    /\ UNCHANGED <<rpcURL, tokenLookups, fundSigned, confirmCalls, marketAccount, walletLamports, walletNOS, destATAExists,
                   vaultBalance, priceRead, walletRead1, walletRead2, solNeeded,
                   nosNeeded, instructions, blockhashes, fundSent, envSteps>>

\* Another party spends from the wallet while FundVault runs (the balance is
\* read afresh at lines 937, 962 and 1125).
WalletSpend ==
    /\ fvPc \in {"query_market", "adapt_sol", "decide", "add_sol"}
    /\ envSteps < MaxEnvSteps
    /\ \E v \in SpendTargets :
          /\ v < walletLamports
          /\ walletLamports' = v
    /\ envSteps' = envSteps + 1
    /\ UNCHANGED <<rpcURL, tokenLookups, fundSigned, confirmCalls, marketAccount, walletNOS, destATAExists, vaultBalance,
                   fvPc, priceRead, walletRead1, walletRead2, solNeeded, nosNeeded,
                   instructions, blockhashes, fundSent, fvErr>>

(***************************************************************************)
(*           Part 3: the retry / restart controller                        *)
(***************************************************************************)

MaxRetriesBound == 3        \* largest maxRetries argument explored
MinRetries == 0 - 1         \* smallest maxRetries argument explored

MaxRestartAttempts == 3

\* Event messages are sequences of words; strings.Contains is containment of a
\* contiguous run of words.
Contains(message, phrase) ==
    \E i \in 1..(Len(message) - Len(phrase) + 1) :
        SubSeq(message, i, i + Len(phrase) - 1) = phrase

PhraseNotConfirmed == <<"Transaction", "was", "not", "confirmed">>
PhraseTxTimeout == <<"transaction", "timeout">>
PhraseExact60 == <<"Transaction", "was", "not", "confirmed", "in", "60.00", "seconds">>

Event(type, message) == [Type |-> type, Message |-> message]

EvExact60 == Event("ERROR", <<"Error:">> \o PhraseExact60
                            \o <<"Check", "signature", "5xkEv", "using", "the", "Solana", "Explorer">>)
EvNotConfirmed30 == Event("ERROR", <<"Transaction", "was", "not", "confirmed", "in", "30.00", "seconds">>)
EvTxTimeout == Event("ERROR", <<"RPC", "transaction", "timeout">>)
EvJobList == Event("JOB_LIST_ERROR", <<"could", "not", "list", "job">>)
EvUnrelated == Event("ERROR", <<"image", "pull", "failed">>)

EventLogs == { <<>>, <<EvUnrelated>>, <<EvExact60>>, <<EvUnrelated, EvExact60>>,
               <<EvNotConfirmed30>>, <<EvTxTimeout>>, <<EvJobList>> }

Statuses == {"DRAFT", "STARTING", "RUNNING", "STOPPING", "STOPPED", "ARCHIVED",
             "ERROR", "INSUFFICIENT_FUNDS"}

Deployments == { [Status |-> st, Events |-> ev] : st \in Statuses, ev \in EventLogs }

NoDeployment == [Status |-> "", Events |-> <<>>]
NoResult == [err |-> "pending", dep |-> NoDeployment]

\* Lines 595-604 of part_003 (351-360 of client.go).
HasBlockchainError(d) ==
    \E i \in DOMAIN d.Events :
        \/ Contains(d.Events[i].Message, PhraseNotConfirmed)
        \/ Contains(d.Events[i].Message, PhraseTxTimeout)
        \/ d.Events[i].Type = "JOB_LIST_ERROR"

\* The signature test with the phrase written without the decimals.
HasExact60_WrongPhrase(d) ==
    \E i \in DOMAIN d.Events :
        Contains(d.Events[i].Message,
                 <<"Transaction", "was", "not", "confirmed", "in", "60", "seconds">>)

\* The signature test with the phrase cut after "confirmed".
HasExact60_AnyNotConfirmed(d) ==
    \E i \in DOMAIN d.Events : Contains(d.Events[i].Message, PhraseNotConfirmed)

\* Line 612 (368): some event carries the exact 60 s signature.
HasExact60(d) ==
    \E i \in DOMAIN d.Events : Contains(d.Events[i].Message, PhraseExact60)

\* The deployment d, observed by GetDeployment, is in ERROR with an event whose
\* message contains "Transaction was not confirmed in 60.00 seconds".
ErrorWithExact60(d) ==
    /\ d.Status = "ERROR"
    /\ \E i \in DOMAIN d.Events :
          Contains(d.Events[i].Message,
                   <<"Transaction", "was", "not", "confirmed", "in", "60.00", "seconds">>)

\* The guard of the recovery branch with the restart allowed on the last attempt too.
Recoverable_AlsoLastAttempt(d, a, maxR) ==
    d.Status = "ERROR" /\ HasBlockchainError(d) /\ a <= maxR

\* The guard of the recovery branch without the look at the event log.
Recoverable_AnyMessage(d, a, maxR) ==
    d.Status = "ERROR" /\ a < maxR

\* Lines 591-606 of part_003 (347-362 of client.go): the guard of the recovery branch.
Recoverable(d, a, maxR) ==
    d.Status = "ERROR" /\ HasBlockchainError(d) /\ a < maxR

RetryReturn(e, d) ==
    /\ rPc' = "returned"
    /\ rResult' = [err |-> e, dep |-> d]

\* `continue`: attempt++ and the loop condition; line 659 (415) when it fails.
NextAttempt ==
    /\ attempt' = attempt + 1
    /\ restartsThisAttempt' = 0
    /\ IF attempt + 1 <= maxRetries
       THEN /\ rPc' = "start"
            /\ UNCHANGED rResult
       ELSE RetryReturn("deployment start failed after all attempts", NoDeployment)

\* The loop entered without its condition being tested the first time.
R_Begin_AtLeastOnce ==
    /\ rPc = "begin"
    /\ rPc' = "start"
    /\ UNCHANGED rResult
    /\ UNCHANGED <<maxRetries, fallbackOk, outerStarts, attempt, restartAttempt, deployment, startReqs,
                   statusReqs, restartReqs, restartsThisAttempt, sawExact60,
                   sawExact60Early>>

\* Lines 552-563 (308-319): health check (its failure is logged) and loop entry.
R_Begin ==
    /\ rPc = "begin"
    /\ IF attempt <= maxRetries
       THEN /\ rPc' = "start"
            /\ UNCHANGED rResult
       ELSE RetryReturn("deployment start failed after all attempts", NoDeployment)
    /\ UNCHANGED <<maxRetries, fallbackOk, outerStarts, attempt, restartAttempt, deployment, startReqs,
                   statusReqs, restartReqs, restartsThisAttempt, sawExact60,
                   sawExact60Early>>

\* Lines 566-574 (322-330): POST /start.
R_Start ==
    /\ rPc = "start"
    /\ startReqs' = startReqs + 1
    /\ outerStarts' = outerStarts + 1
    /\ \E ok \in BOOLEAN :
          IF ok
          THEN /\ rPc' = "status"
               /\ UNCHANGED <<attempt, restartsThisAttempt, rResult>>
          ELSE IF attempt = maxRetries
          THEN /\ RetryReturn("failed to start deployment after all attempts", NoDeployment)
               /\ UNCHANGED <<attempt, restartsThisAttempt>>
          ELSE NextAttempt
    /\ UNCHANGED <<maxRetries, fallbackOk, restartAttempt, deployment, statusReqs, restartReqs,
                   sawExact60, sawExact60Early>>

\* Lines 576-656 (332-412) up to the nested loop: GET /deployment and the
\* classification of what it returned.
R_Status ==
    /\ rPc = "status"
    /\ statusReqs' = statusReqs + 1
    /\ \/ /\ IF attempt = maxRetries
             THEN /\ RetryReturn("failed to verify deployment status after all attempts",
                                 NoDeployment)
                  /\ UNCHANGED <<attempt, restartsThisAttempt>>
             ELSE NextAttempt
          /\ UNCHANGED <<deployment, restartAttempt, sawExact60, sawExact60Early>>
       \/ \E d \in Deployments :
             /\ deployment' = d
             /\ sawExact60' = (sawExact60 \/ ErrorWithExact60(d))
             /\ sawExact60Early' = (sawExact60Early
                                    \/ (ErrorWithExact60(d) /\ attempt < maxRetries))
             /\ IF Recoverable(d, attempt, maxRetries)
                THEN /\ IF HasExact60(d)
                        THEN /\ rPc' = "restart"
                             /\ restartAttempt' = 1
                        ELSE /\ rPc' = "cooldown"
                             /\ UNCHANGED restartAttempt
                     /\ UNCHANGED <<attempt, restartsThisAttempt, rResult>>
                ELSE /\ RetryReturn("", d)
                     /\ UNCHANGED <<attempt, restartAttempt, restartsThisAttempt>>
    /\ UNCHANGED <<maxRetries, fallbackOk, outerStarts, startReqs, restartReqs>>

\* Lines 622-641 (378-397): POST /restart of the nested loop.
R_Restart ==
    /\ rPc = "restart"
    /\ restartReqs' = restartReqs + 1
    /\ restartsThisAttempt' = restartsThisAttempt + 1
    /\ \E ok \in BOOLEAN :
          rPc' = IF ok THEN "cooldown" ELSE "fallback"
    /\ UNCHANGED <<maxRetries, fallbackOk, outerStarts, attempt, restartAttempt, deployment, startReqs,
                   statusReqs, sawExact60, sawExact60Early, rResult>>

\* The direct start with a success of it ending the nested loop.
R_FallbackStart_BreakOnSuccess ==
    /\ rPc = "fallback"
    /\ startReqs' = startReqs + 1
    /\ \E ok \in BOOLEAN :
          /\ fallbackOk' = IF ok THEN "ok" ELSE "failed"
          /\ rPc' = IF ~ok /\ restartAttempt + 1 <= MaxRestartAttempts
                    THEN "restart" ELSE "cooldown"
    /\ restartAttempt' = restartAttempt + 1
    /\ UNCHANGED <<maxRetries, outerStarts, attempt, deployment, statusReqs, restartReqs,
                   restartsThisAttempt, sawExact60, sawExact60Early, rResult>>

\* Lines 630-643 (386-399): direct start after a failed restart, the 10 s wait
\* and the nested loop's increment and condition.
R_FallbackStart ==
    /\ rPc = "fallback"
    /\ startReqs' = startReqs + 1
    /\ \E ok \in BOOLEAN : fallbackOk' = IF ok THEN "ok" ELSE "failed"
    /\ restartAttempt' = restartAttempt + 1
    /\ rPc' = IF restartAttempt + 1 <= MaxRestartAttempts THEN "restart" ELSE "cooldown"
    /\ UNCHANGED <<maxRetries, outerStarts, attempt, deployment, statusReqs, restartReqs,
                   restartsThisAttempt, sawExact60, sawExact60Early, rResult>>

\* The 30 s wait followed by a jump back to the start request with the loop
\* counter left as it is.
R_Cooldown_SameAttempt ==
    /\ rPc = "cooldown"
    /\ rPc' = "start"
    /\ restartsThisAttempt' = 0
    /\ UNCHANGED <<maxRetries, fallbackOk, outerStarts, attempt, restartAttempt, deployment,
                   startReqs, statusReqs, restartReqs, sawExact60, sawExact60Early,
                   rResult>>

\* Lines 649-651 (405-407): the 30 s wait and `continue`.
R_Cooldown ==
    /\ rPc = "cooldown"
    /\ NextAttempt
    /\ UNCHANGED <<maxRetries, fallbackOk, outerStarts, restartAttempt, deployment, startReqs, statusReqs,
                   restartReqs, sawExact60, sawExact60Early>>

(***************************************************************************)
(*       Part 4: the wait_for_completion loop of resourceNosanaJobCreate   *)
(*                                                                         *)
(* Time is counted in seconds from the creation of timeoutChan and tick.   *)
(* A `select` with both channels ready takes either case.                  *)
(***************************************************************************)

MaxClock == 170             \* no poll is started after this many seconds
PollCountCap == 4           \* pollCount stops counting here

TickPeriod == 5
CooldownSeconds == 45
MaxAutoRetries == 3

\* completion_timeout_seconds values explored: the smallest valid one, one just
\* over three poll intervals, one falling on a tick, and one that leaves room
\* for three automatic restarts.
CompletionTimeouts == {1, 16, 20, 160}

\* Time a GetDeployment call of the loop takes (the HTTP client allows up to 30 s).
PollLatencies == {0, 6}

\* Shortest run of StartDeploymentWithRetry(ctx, id, 3): a start followed by the
\* 5 s wait and a status that ends the call, or three failed starts with two
\* 10 s waits between them.
RestartCallSeconds(ok) == IF ok THEN 5 ELSE 20

WErrTimeout == "timeout waiting for Nosana deployment to complete"
WErrRestarts == "deployment failed after 3 restart attempts due to blockchain timeouts"
WErrRead == "failed to read Nosana deployment"

NonStableStatuses == {"DRAFT", "STARTING", "STOPPING"}

\* The exit test with STARTING taken for a stable status.
StableStatus_WithStarting(st) ==
    st \in {"RUNNING", "STOPPED", "ARCHIVED", "ERROR", "INSUFFICIENT_FUNDS", "STARTING"}

\* The exit test without RUNNING.
StableStatus_NoRunning(st) ==
    st \in {"STOPPED", "ARCHIVED", "ERROR", "INSUFFICIENT_FUNDS"}

\* Line 687: the statuses that end the loop.
StableStatus(st) ==
    st \in {"RUNNING", "STOPPED", "ARCHIVED", "ERROR", "INSUFFICIENT_FUNDS"}

\* Lines 655-664: some event of the polled deployment shows a blockchain timeout.
HasBlockchainTimeout(d) ==
    \E i \in DOMAIN d.Events :
        \/ Contains(d.Events[i].Message, <<"Transaction", "was", "not", "confirmed">>)
        \/ Contains(d.Events[i].Message, <<"transaction", "timeout">>)
        \/ d.Events[i].Type = "JOB_LIST_ERROR"

\* Time passes until t1; the ticker fires on its period and tick.C keeps one tick.
Elapse(consumed, t1) ==
    /\ now' = t1
    /\ tickReady' = ((tickReady /\ ~consumed) \/ nextTick <= t1)
    /\ nextTick' = IF nextTick <= t1
                   THEN ((t1 \div TickPeriod) + 1) * TickPeriod
                   ELSE nextTick

WaitReturn(e) ==
    /\ wPc' = "returned"
    /\ wErr' = e

\* The loop is left through `return resourceNosanaJobRead(...)` at line 689.
LeaveLoop ==
    /\ wPc' = "read"
    /\ exitStatus' = dStatus'

\* Lines 627-635: the loop is entered when wait_for_completion is set; otherwise
\* line 696 reads the deployment at once.
W_Enter ==
    /\ wPc = "started"
    /\ wPc' = IF waitForCompletion THEN "select" ELSE "read"
    /\ UNCHANGED <<waitForCompletion, completionTimeout, now, tickReady, nextTick,
                   dStatus, idSet, retryCount, cooldowns, autoRestarts, wErr,
                   pollCount, leadingNonStable, allNonStable, lastPoll,
                   errorAfterBudget, exitStatus>>

\* Line 638: the select blocks until the ticker or the timeout fires.
W_Wait ==
    /\ wPc = "select"
    /\ ~tickReady
    /\ now < completionTimeout
    /\ Elapse(FALSE, IF nextTick < completionTimeout THEN nextTick ELSE completionTimeout)
    /\ UNCHANGED <<waitForCompletion, completionTimeout, wPc, dStatus, idSet,
                   retryCount, cooldowns, autoRestarts, wErr, pollCount,
                   leadingNonStable, allNonStable, lastPoll, errorAfterBudget,
                   exitStatus>>

\* The timeout case with the deployment read instead of the error.
W_Timeout_ReadInstead ==
    /\ wPc = "select"
    /\ now >= completionTimeout
    /\ wPc' = "read"
    /\ exitStatus' = dStatus
    /\ UNCHANGED <<waitForCompletion, completionTimeout, now, tickReady, nextTick,
                   dStatus, idSet, retryCount, cooldowns, autoRestarts, wErr,
                   pollCount, leadingNonStable, allNonStable, lastPoll,
                   errorAfterBudget>>

\* Lines 639-640: the timeout case.
W_Timeout ==
    /\ wPc = "select"
    /\ now >= completionTimeout
    /\ WaitReturn(WErrTimeout)
    /\ UNCHANGED <<waitForCompletion, completionTimeout, now, tickReady, nextTick,
                   dStatus, idSet, retryCount, cooldowns, autoRestarts, pollCount,
                   leadingNonStable, allNonStable, lastPoll, errorAfterBudget,
                   exitStatus>>

\* The tick case with the status attribute written for stable statuses only.
W_Poll_StatusOnExit ==
    /\ wPc = "select"
    /\ tickReady
    /\ now <= MaxClock
    /\ pollCount' = IF pollCount < PollCountCap THEN pollCount + 1 ELSE pollCount
    /\ \E lat \in PollLatencies : Elapse(TRUE, now + lat)
    /\ \/ /\ lastPoll' = "FAILED"
          /\ leadingNonStable' = leadingNonStable
          /\ UNCHANGED <<wPc, dStatus, retryCount, allNonStable, errorAfterBudget,
                         exitStatus>>
       \/ \E d \in Deployments :
             /\ lastPoll' = d.Status
             /\ dStatus' = IF StableStatus(d.Status) THEN d.Status ELSE dStatus
             /\ allNonStable' = (allNonStable /\ d.Status \in NonStableStatuses)
             /\ leadingNonStable' =
                   IF d.Status \in NonStableStatuses /\ leadingNonStable = pollCount
                      /\ leadingNonStable < PollCountCap
                   THEN leadingNonStable + 1
                   ELSE leadingNonStable
             /\ errorAfterBudget' =
                   (errorAfterBudget
                    \/ (ErrorWithExact60(d) /\ retryCount = MaxAutoRetries))
             /\ IF d.Status = "ERROR" /\ retryCount < MaxAutoRetries
                   /\ HasBlockchainTimeout(d)
                THEN /\ retryCount' = retryCount + 1
                     /\ wPc' = "cooldown"
                     /\ UNCHANGED exitStatus
                ELSE IF StableStatus(d.Status)
                THEN /\ LeaveLoop
                     /\ UNCHANGED retryCount
                ELSE UNCHANGED <<wPc, retryCount, exitStatus>>
    /\ UNCHANGED <<waitForCompletion, completionTimeout, idSet, cooldowns,
                   autoRestarts, wErr>>

\* Lines 641-692: the tick case up to the point where it continues, starts the
\* cooldown of an automatic restart, or leaves the loop.
W_Poll ==
    /\ wPc = "select"
    /\ tickReady
    /\ now <= MaxClock
    /\ pollCount' = IF pollCount < PollCountCap THEN pollCount + 1 ELSE pollCount
    /\ \E lat \in PollLatencies : Elapse(TRUE, now + lat)
    /\ \/ /\ lastPoll' = "FAILED"
          /\ leadingNonStable' = leadingNonStable
          /\ UNCHANGED <<wPc, dStatus, retryCount, allNonStable, errorAfterBudget,
                         exitStatus>>
       \/ \E d \in Deployments :
             /\ lastPoll' = d.Status
             /\ dStatus' = d.Status
             /\ allNonStable' = (allNonStable /\ d.Status \in NonStableStatuses)
             /\ leadingNonStable' =
                   IF d.Status \in NonStableStatuses /\ leadingNonStable = pollCount
                      /\ leadingNonStable < PollCountCap
                   THEN leadingNonStable + 1
                   ELSE leadingNonStable
             /\ errorAfterBudget' =
                   (errorAfterBudget
                    \/ (ErrorWithExact60(d) /\ retryCount = MaxAutoRetries))
             /\ IF d.Status = "ERROR" /\ retryCount < MaxAutoRetries
                   /\ HasBlockchainTimeout(d)
                THEN /\ retryCount' = retryCount + 1
                     /\ wPc' = "cooldown"
                     /\ UNCHANGED exitStatus
                ELSE IF StableStatus(d.Status)
                THEN /\ LeaveLoop
                     /\ UNCHANGED retryCount
                ELSE UNCHANGED <<wPc, retryCount, exitStatus>>
    /\ UNCHANGED <<waitForCompletion, completionTimeout, idSet, cooldowns,
                   autoRestarts, wErr>>

\* The step to the restart call with the 45 s sleep left out.
W_Cooldown_NoSleep ==
    /\ wPc = "cooldown"
    /\ wPc' = "restart"
    /\ UNCHANGED <<waitForCompletion, completionTimeout, now, tickReady, nextTick,
                   dStatus, idSet, retryCount, cooldowns, autoRestarts, wErr,
                   pollCount, leadingNonStable, allNonStable, lastPoll,
                   errorAfterBudget, exitStatus>>

\* Line 671: time.Sleep(45 * time.Second).
W_Cooldown ==
    /\ wPc = "cooldown"
    /\ cooldowns' = cooldowns + 1
    /\ Elapse(FALSE, now + CooldownSeconds)
    /\ wPc' = "restart"
    /\ UNCHANGED <<waitForCompletion, completionTimeout, dStatus, idSet, retryCount,
                   autoRestarts, wErr, pollCount, leadingNonStable, allNonStable,
                   lastPoll, errorAfterBudget, exitStatus>>

\* Lines 674-683: StartDeploymentWithRetry(ctx, id, 3) and what follows it.
W_AutoRestart ==
    /\ wPc = "restart"
    /\ autoRestarts' = autoRestarts + 1
    /\ \E ok \in BOOLEAN :
          /\ Elapse(FALSE, now + RestartCallSeconds(ok))
          /\ IF ~ok /\ retryCount >= MaxAutoRetries
             THEN WaitReturn(WErrRestarts)
             ELSE /\ wPc' = "select"
                  /\ UNCHANGED wErr
    /\ UNCHANGED <<waitForCompletion, completionTimeout, dStatus, idSet, retryCount,
                   cooldowns, pollCount, leadingNonStable, allNonStable, lastPoll,
                   errorAfterBudget, exitStatus>>

\* Lines 700-732: resourceNosanaJobRead.
W_Read ==
    /\ wPc = "read"
    /\ \/ /\ WaitReturn(WErrRead)
          /\ UNCHANGED <<dStatus, idSet>>
       \/ /\ WaitReturn("")
          /\ idSet' = FALSE
          /\ UNCHANGED dStatus
       \/ \E st \in Statuses :
             /\ WaitReturn("")
             /\ dStatus' = st
             /\ UNCHANGED idSet
    /\ UNCHANGED <<waitForCompletion, completionTimeout, now, tickReady, nextTick,
                   retryCount, cooldowns, autoRestarts, pollCount, leadingNonStable,
                   allNonStable, lastPoll, errorAfterBudget, exitStatus>>

(***************************************************************************)
(*                     Part 5: waitForConfirmation                         *)
(*                                                                         *)
(* Time is counted in seconds from the creation of the timeout channel and *)
(* the ticker.  The ledger's record of the signature changes on its own.   *)
(***************************************************************************)

MaxConfirmClock == 64       \* no status query is started after this many seconds
ConfirmPollCap == 2         \* cPolls stops counting here

ConfirmTimeoutSeconds == 60
ConfirmTickPeriod == 2

\* Time a GetSignatureStatuses call takes.
RpcLatencies == {0, 3}

CErrFailed == "transaction failed"
CErrTimeout == "transaction confirmation timeout after 60 seconds"

\* rpc.ConfirmationStatusType values, and "none" for a signature the node does
\* not know (a nil entry in statuses.Value).
Levels == <<"none", "processed", "confirmed", "finalized">>

SigStatuses == { [level |-> Levels[i], err |-> e] : i \in 1..4, e \in BOOLEAN }
                \ { [level |-> "none", err |-> TRUE] }

NoPoll == [kind |-> "none", level |-> "none", err |-> FALSE]
RpcError == [kind |-> "rpc_error", level |-> "none", err |-> FALSE]

\* The verdict with the confirmation level looked at before the error.
PollVerdict_LevelFirst(st) ==
    IF st.level \in {"confirmed", "finalized"} THEN "confirmed"
    ELSE IF st.level # "none" /\ st.err THEN "failed"
    ELSE "continue"

\* The verdict with only the finalized level accepted.
PollVerdict_FinalizedOnly(st) ==
    IF st.level # "none" /\ st.err THEN "failed"
    ELSE IF st.level = "finalized" THEN "confirmed"
    ELSE "continue"

\* Lines 1354-1365: what the loop does with an answered status query.
PollVerdict(st) ==
    IF st.level # "none" /\ st.err THEN "failed"
    ELSE IF st.level \in {"confirmed", "finalized"} THEN "confirmed"
    ELSE "continue"

ConfElapse(consumed, t1) ==
    /\ cNow' = t1
    /\ cTickReady' = ((cTickReady /\ ~consumed) \/ cNextTick <= t1)
    /\ cNextTick' = IF cNextTick <= t1
                    THEN ((t1 \div ConfirmTickPeriod) + 1) * ConfirmTickPeriod
                    ELSE cNextTick

\* Lines 1342-1343: the select blocks until the ticker or the timeout fires.
WC_Wait ==
    /\ cPc = "select"
    /\ ~cTickReady
    /\ cNow < ConfirmTimeoutSeconds
    /\ ConfElapse(FALSE, IF cNextTick < ConfirmTimeoutSeconds
                         THEN cNextTick ELSE ConfirmTimeoutSeconds)
    /\ UNCHANGED <<sigStatus, sigAtStart, cPc, cLastPoll, cPolls, cRpcFailed, cErr>>

\* Lines 1344-1345: the timeout case.
WC_Timeout ==
    /\ cPc = "select"
    /\ cNow >= ConfirmTimeoutSeconds
    /\ cPc' = "returned"
    /\ cErr' = CErrTimeout
    /\ UNCHANGED <<sigStatus, sigAtStart, cNow, cTickReady, cNextTick, cLastPoll,
                   cPolls, cRpcFailed>>

\* Lines 1346-1366: the ticker case, one GetSignatureStatuses call.
WC_Poll ==
    /\ cPc = "select"
    /\ cTickReady
    /\ cNow <= MaxConfirmClock
    /\ cPolls' = IF cPolls < ConfirmPollCap THEN cPolls + 1 ELSE cPolls
    /\ \E lat \in RpcLatencies : ConfElapse(TRUE, cNow + lat)
    /\ \/ /\ cLastPoll' = RpcError
          /\ cRpcFailed' = TRUE
          /\ UNCHANGED <<cPc, cErr>>
       \/ /\ cLastPoll' = [kind |-> "status", level |-> sigStatus.level,
                           err |-> sigStatus.err]
          /\ UNCHANGED cRpcFailed
          /\ IF PollVerdict(sigStatus) = "failed"
             THEN /\ cPc' = "returned"
                  /\ cErr' = CErrFailed
             ELSE IF PollVerdict(sigStatus) = "confirmed"
             THEN /\ cPc' = "returned"
                  /\ cErr' = ""
             ELSE UNCHANGED <<cPc, cErr>>
    /\ UNCHANGED <<sigStatus, sigAtStart>>

\* The cluster processes the transaction and raises its commitment level; a
\* transaction that fails carries its error from the moment it is processed.
LedgerAdvance ==
    /\ cPc = "select"
    /\ \E i \in 1..3 :
          /\ sigStatus.level = Levels[i]
          /\ \E e \in BOOLEAN :
                /\ (i > 1 => e = sigStatus.err)
                /\ sigStatus' = [level |-> Levels[i + 1], err |-> e]
    /\ UNCHANGED <<sigAtStart, cPc, cNow, cTickReady, cNextTick, cLastPoll, cPolls,
                   cRpcFailed, cErr>>

(***************************************************************************)
(*        Part 6: the handlers of the nosana_job resource                  *)
(*                                                                         *)
(* Terraform calls Create for a resource that is not in the state and      *)
(* Read, Update or Delete for one that is.  resState holds the attribute   *)
(* values stored by the last handler that succeeded; resConfig holds the   *)
(* values d.Get returns in the handler that runs.  A handler that returns  *)
(* an error has stored nothing of its own.                                 *)
(***************************************************************************)

WaitDeadlineSeconds == 70
WaitSleepSeconds == 5

\* The loop of lines 189-205 sleeps 5 s in each iteration that does not break.
MaxWaitPolls == WaitDeadlineSeconds \div WaitSleepSeconds

\* Values the schema (lines 24-48) admits for the four attributes Update looks at.
Configs ==
    [job_content : {"jobA", "jobB"}, replicas : {1, 2}, timeout : {300, 600},
     strategy : {"SIMPLE", "INFINITE"}]

UpdateKeys == {"job_content", "replicas", "timeout", "strategy"}

NoConfig == [job_content |-> "", replicas |-> 0, timeout |-> 0, strategy |-> ""]

ErrUpload == "failed to upload job definition to IPFS"
ErrCreate == "failed to create deployment"
ErrStart == "failed to start deployment"
ErrUpdate == "changes to direct blockchain jobs require creating a new resource"

\* d.HasChange(key) for the configuration cfg against the stored state.
HasChange(cfg, key) == cfg[key] # resState[key]

ResReturn(e) ==
    /\ resPc' = "done"
    /\ resErr' = e

\* Lines 215-259: resourceNosanaJobRead after reqs have been sent by its caller.
\* Any error of GetDeployment removes the resource from the state.
ReadDeployment(reqs) ==
    \/ /\ resRequests' = reqs \cup {"get"}
       /\ resId' = ""
       /\ ResReturn("")
       /\ UNCHANGED resStatus
    \/ /\ remoteStatus # "none"
       /\ resRequests' = reqs \cup {"get"}
                              \cup (IF remoteStatus = "ERROR" THEN {"events"} ELSE {})
       /\ resStatus' = remoteStatus
       /\ ResReturn("")
       /\ UNCHANGED resId

\* Lines 119-129: Create is called with a configuration and no stored state;
\* job_content has passed validation.StringIsJSON, so json.Unmarshal succeeds.
RC_Parse ==
    /\ resPc \in {"idle", "done"}
    /\ resId = ""
    /\ resOp' = "create"
    /\ resPc' = "upload"
    /\ resConfig' \in Configs
    /\ resState' = NoConfig
    /\ resStatus' = ""
    /\ resChanged' = {}
    /\ resRequests' = {}
    /\ resErr' = ""
    /\ fundFailed' = FALSE
    /\ waitPolls' = 0
    /\ UNCHANGED <<resId, remoteStatus>>

\* Lines 131-136: UploadToIPFS.
RC_Upload ==
    /\ resPc = "upload"
    /\ resRequests' = resRequests \cup {"upload"}
    /\ \E ok \in BOOLEAN :
          IF ok THEN resPc' = "create_deployment" /\ UNCHANGED resErr
                ELSE ResReturn(ErrUpload)
    /\ UNCHANGED <<resOp, resId, resStatus, resState, resConfig, resChanged,
                   remoteStatus, fundFailed, waitPolls>>

\* Lines 144-161: CreateDeploymentSDK leaves a DRAFT deployment at the service.
RC_CreateDeployment ==
    /\ resPc = "create_deployment"
    /\ resRequests' = resRequests \cup {"create"}
    /\ \E ok \in BOOLEAN :
          IF ok THEN /\ resPc' = "fund"
                     /\ remoteStatus' = "DRAFT"
                     /\ UNCHANGED resErr
                ELSE /\ ResReturn(ErrCreate)
                     /\ UNCHANGED remoteStatus
    /\ UNCHANGED <<resOp, resId, resStatus, resState, resConfig, resChanged,
                   fundFailed, waitPolls>>

\* Lines 163-171: FundVault; its error is logged and Create goes on.
RC_FundVault ==
    /\ resPc = "fund"
    /\ resRequests' = resRequests \cup {"fund"}
    /\ \E ok \in BOOLEAN : fundFailed' = ~ok
    /\ resPc' = "start"
    /\ UNCHANGED <<resOp, resId, resStatus, resState, resConfig, resChanged,
                   remoteStatus, resErr, waitPolls>>

\* Lines 173-186: StartDeploymentSDK, then d.SetId and the first attribute writes.
RC_Start ==
    /\ resPc = "start"
    /\ resRequests' = resRequests \cup {"start"}
    /\ \E ok \in BOOLEAN :
          IF ok THEN /\ remoteStatus' \in {"STARTING", "ERROR"}
                     /\ resId' = "dep"
                     /\ resStatus' = "STARTING"
                     /\ resState' = resConfig
                     /\ resPc' = "wait"
                     /\ UNCHANGED resErr
                ELSE /\ ResReturn(ErrStart)
                     /\ UNCHANGED <<remoteStatus, resId, resStatus, resState>>
    /\ UNCHANGED <<resOp, resConfig, resChanged, fundFailed, waitPolls>>

\* Lines 189-205: one iteration of the wait for RUNNING.
RC_WaitPoll ==
    /\ resPc = "wait"
    /\ waitPolls < MaxWaitPolls
    /\ resRequests' = resRequests \cup {"get"}
    /\ \/ /\ waitPolls' = waitPolls + 1
          /\ UNCHANGED <<resPc, resStatus>>
       \/ IF remoteStatus \in {"RUNNING", "ERROR"}
          THEN /\ resStatus' = remoteStatus
               /\ resPc' = "read"
               /\ UNCHANGED waitPolls
          ELSE /\ waitPolls' = waitPolls + 1
               /\ UNCHANGED <<resPc, resStatus>>
    /\ UNCHANGED <<resOp, resId, resState, resConfig, resChanged, remoteStatus,
                   resErr, fundFailed>>

\* Line 190: the deadline has passed.  The first iteration starts before it;
\* a slow GetDeployment can use up the 70 s in fewer than MaxWaitPolls iterations.
RC_WaitEnd ==
    /\ resPc = "wait"
    /\ waitPolls >= 1
    /\ resPc' = "read"
    /\ UNCHANGED <<resOp, resId, resStatus, resState, resConfig, resChanged,
                   remoteStatus, resRequests, resErr, fundFailed, waitPolls>>

\* Create ending with the status it wrote itself, without the final read.
RC_Read_NoReread ==
    /\ resPc = "read"
    /\ ResReturn("")
    /\ UNCHANGED <<resOp, resId, resStatus, resState, resConfig, resChanged,
                   remoteStatus, resRequests, fundFailed, waitPolls>>

\* Line 211: Create ends with resourceNosanaJobRead.
RC_Read ==
    /\ resPc = "read"
    /\ ReadDeployment(resRequests)
    /\ UNCHANGED <<resOp, resState, resConfig, resChanged, remoteStatus, fundFailed,
                   waitPolls>>

\* Lines 215-259: Terraform refreshes a resource that is in the state.
RS_Read ==
    /\ resPc = "done"
    /\ resId # ""
    /\ resOp' = "read"
    /\ ReadDeployment({})
    /\ UNCHANGED <<resState, resConfig, resChanged, remoteStatus, fundFailed,
                   waitPolls>>

\* Lines 262-271: resourceNosanaJobUpdate.
RS_Update ==
    /\ resPc = "done"
    /\ resId # ""
    /\ resOp' = "update"
    /\ \E cfg \in Configs :
          /\ resConfig' = cfg
          /\ resChanged' = { k \in UpdateKeys : HasChange(cfg, k) }
          /\ IF HasChange(cfg, "job_content") \/ HasChange(cfg, "replicas")
                \/ HasChange(cfg, "timeout") \/ HasChange(cfg, "strategy")
             THEN /\ ResReturn(ErrUpdate)
                  /\ resRequests' = {}
                  /\ UNCHANGED <<resId, resStatus>>
             ELSE ReadDeployment({})
    /\ UNCHANGED <<resState, remoteStatus, fundFailed, waitPolls>>

\* Delete that asks the service to remove the deployment before it clears the ID.
RS_Delete_WithRequest ==
    /\ resPc = "done"
    /\ resId # ""
    /\ resOp' = "delete"
    /\ resRequests' = {"delete"}
    /\ remoteStatus' = "none"
    /\ resId' = ""
    /\ ResReturn("")
    /\ UNCHANGED <<resStatus, resState, resConfig, resChanged, fundFailed, waitPolls>>

\* Lines 273-286: resourceNosanaJobDelete.
RS_Delete ==
    /\ resPc = "done"
    /\ resId # ""
    /\ resOp' = "delete"
    /\ resRequests' = {}
    /\ resId' = ""
    /\ ResReturn("")
    /\ UNCHANGED <<resStatus, resState, resConfig, resChanged, remoteStatus,
                   fundFailed, waitPolls>>

\* The service moves the deployment on its own.
RemoteAdvance ==
    /\ \/ remoteStatus = "STARTING" /\ remoteStatus' \in {"RUNNING", "ERROR"}
       \/ remoteStatus = "RUNNING" /\ remoteStatus' \in {"STOPPED", "ERROR"}
    /\ UNCHANGED <<resOp, resPc, resId, resStatus, resState, resConfig, resChanged,
                   resRequests, resErr, fundFailed, waitPolls>>

(***************************************************************************)
(*   Part 7: two StartDeploymentWithRetry calls on one NosanaAPIClient     *)
(*                                                                         *)
(* Each call runs in its own goroutine with its own arguments and loop     *)
(* counters; the steps of the two calls interleave in any order.  The      *)
(* client struct is what the two calls have in common.                     *)
(***************************************************************************)

Flows == {1, 2}

\* The deploymentID argument of each call: two different deployments.
FlowID(f) == IF f = 1 THEN "depA" ELSE "depB"

\* maxRetries arguments of the calls.
FlowRetries == {0, 1, 2}

\* What GET /api/deployment/{id} answers in this part.
FlowDeployments ==
    { [Status |-> st, Events |-> ev] :
        st \in {"RUNNING", "ERROR"}, ev \in {<<>>, <<EvExact60>>, <<EvTxTimeout>>} }

\* Lines 87-95 and 130-138: the struct as NewNosanaAPIClient fills it.
ClientStruct ==
    [privateKey |-> "key", PublicKey |-> "wallet", baseURL |-> "api", ipfsURL |-> "ipfs",
     httpClient |-> "http", rpcClient |-> "rpc", rpcURL |-> "url"]

FlowStart(f, maxR) ==
    [id |-> FlowID(f), maxRetries |-> maxR, attempt |-> 1, restartAttempt |-> 0,
     pc |-> "begin", err |-> "pending", status |-> ""]

\* What a call gets back for a request: success or failure, and the deployment
\* when GetDeployment succeeded.
Answer(ok, d) == [ok |-> ok, dep |-> d]

\* The deployment ID every call would use if the client kept the first caller's.
RequestID_FirstCaller(f) == fl[1].id

\* The deployment ID in the path of a request of call f (lines 323, 337, 381, 387).
RequestID(f) == fl[f].id

\* makeRequest (lines 160-201): the request goes to c.baseURL with the path of
\* the caller; the client is read only.
SendRequest(f, kind, response) ==
    /\ reqLog' = [reqLog EXCEPT ![f] = @ \cup {[kind |-> kind, id |-> RequestID(f)]}]
    /\ hist' = [hist EXCEPT ![f] = Append(@, response)]
    /\ UNCHANGED client

FlowReturn(loc, e, st) == [loc EXCEPT !.pc = "returned", !.err = e, !.status = st]

\* `continue` of the outer loop, and line 415 when its condition fails.
FlowNextAttempt(loc) ==
    IF loc.attempt + 1 <= loc.maxRetries
    THEN [loc EXCEPT !.attempt = @ + 1, !.pc = "start"]
    ELSE FlowReturn([loc EXCEPT !.attempt = @ + 1],
                    "deployment start failed after all attempts", "")

\* Lines 308-319: loop entry.
F_Begin(f) ==
    /\ fl[f].pc = "begin"
    /\ fl' = [fl EXCEPT ![f] =
                IF @.attempt <= @.maxRetries
                THEN [@ EXCEPT !.pc = "start"]
                ELSE FlowReturn(@, "deployment start failed after all attempts", "")]
    /\ UNCHANGED <<client, reqLog, hist>>

\* Lines 322-330: POST /start.
F_Start(f) ==
    /\ fl[f].pc = "start"
    /\ \E ok \in BOOLEAN :
          /\ SendRequest(f, "start", Answer(ok, NoDeployment))
          /\ fl' = [fl EXCEPT ![f] =
                      IF ok THEN [@ EXCEPT !.pc = "status"]
                      ELSE IF @.attempt = @.maxRetries
                      THEN FlowReturn(@, "failed to start deployment after all attempts", "")
                      ELSE FlowNextAttempt(@)]

\* Lines 332-412 up to the nested loop: GET /deployment and its classification.
F_Status(f) ==
    /\ fl[f].pc = "status"
    /\ \/ /\ SendRequest(f, "status", Answer(FALSE, NoDeployment))
          /\ fl' = [fl EXCEPT ![f] =
                      IF @.attempt = @.maxRetries
                      THEN FlowReturn(@, "failed to verify deployment status after all attempts", "")
                      ELSE FlowNextAttempt(@)]
       \/ \E d \in FlowDeployments :
             /\ SendRequest(f, "status", Answer(TRUE, d))
             /\ fl' = [fl EXCEPT ![f] =
                         IF Recoverable(d, @.attempt, @.maxRetries)
                         THEN IF HasExact60(d)
                              THEN [@ EXCEPT !.pc = "restart", !.restartAttempt = 1]
                              ELSE [@ EXCEPT !.pc = "cooldown"]
                         ELSE FlowReturn(@, "", d.Status)]

\* Lines 378-397: POST /restart of the nested loop.
F_Restart(f) ==
    /\ fl[f].pc = "restart"
    /\ \E ok \in BOOLEAN :
          /\ SendRequest(f, "restart", Answer(ok, NoDeployment))
          /\ fl' = [fl EXCEPT ![f] = [@ EXCEPT !.pc = IF ok THEN "cooldown" ELSE "fallback"]]

\* Lines 386-399: direct start after a failed restart, the 10 s wait and the
\* nested loop's increment and condition.
F_FallbackStart(f) ==
    /\ fl[f].pc = "fallback"
    /\ \E ok \in BOOLEAN : SendRequest(f, "start", Answer(ok, NoDeployment))
    /\ fl' = [fl EXCEPT ![f] =
                [@ EXCEPT !.restartAttempt = @ + 1,
                          !.pc = IF fl[f].restartAttempt + 1 <= MaxRestartAttempts
                                 THEN "restart" ELSE "cooldown"]]

\* Lines 405-407: the 30 s wait and `continue`.
F_Cooldown(f) ==
    /\ fl[f].pc = "cooldown"
    /\ fl' = [fl EXCEPT ![f] = FlowNextAttempt(@)]
    /\ UNCHANGED <<client, reqLog, hist>>

(***************************************************************************)
(*                          Specifications                                 *)
(***************************************************************************)

JobIdle ==
    /\ ipfsHash = [ok |-> FALSE, bytes |-> <<>>]
    /\ timeout = 0
    /\ jobPc = "idle"
    /\ buildResult = NotBuilt
    /\ jobSigned = 0
    /\ jobSent = <<>>
    /\ jobErr = ""

FundIdle ==
    /\ rpcURL = FALSE
    /\ marketAccount = [ok |-> FALSE, data |-> <<>>]
    /\ walletLamports = 0
    /\ walletNOS = [exists |-> FALSE, dataLen |-> 0, amount |-> 0]
    /\ destATAExists = FALSE
    /\ vaultBalance = [SOL |-> 0, NOS |-> 0]
    /\ fvPc = "idle"
    /\ priceRead = NoRead
    /\ walletRead1 = NoRead
    /\ walletRead2 = NoRead
    /\ solNeeded = SolTarget
    /\ nosNeeded = 0
    /\ instructions = <<>>
    /\ blockhashes = 0
    /\ fundSent = <<>>
    /\ fundSigned = 0
    /\ confirmCalls = 0
    /\ tokenLookups = NoLookups
    /\ fvErr = ""
    /\ envSteps = 0

RetryIdle ==
    /\ maxRetries = 0
    /\ attempt = 1
    /\ restartAttempt = 0
    /\ rPc = "idle"
    /\ deployment = NoDeployment
    /\ startReqs = 0
    /\ outerStarts = 0
    /\ statusReqs = 0
    /\ restartReqs = 0
    /\ restartsThisAttempt = 0
    /\ sawExact60 = FALSE
    /\ sawExact60Early = FALSE
    /\ rResult = NoResult
    /\ fallbackOk = "none"

WaitIdle ==
    /\ waitForCompletion = FALSE
    /\ completionTimeout = 1
    /\ wPc = "idle"
    /\ now = 0
    /\ tickReady = FALSE
    /\ nextTick = TickPeriod
    /\ dStatus = ""
    /\ idSet = FALSE
    /\ retryCount = 0
    /\ cooldowns = 0
    /\ autoRestarts = 0
    /\ wErr = ""
    /\ pollCount = 0
    /\ leadingNonStable = 0
    /\ allNonStable = TRUE
    /\ lastPoll = "none"
    /\ errorAfterBudget = FALSE
    /\ exitStatus = ""

ConfIdle ==
    /\ sigStatus = [level |-> "none", err |-> FALSE]
    /\ sigAtStart = [level |-> "none", err |-> FALSE]
    /\ cPc = "idle"
    /\ cNow = 0
    /\ cTickReady = FALSE
    /\ cNextTick = ConfirmTickPeriod
    /\ cLastPoll = NoPoll
    /\ cPolls = 0
    /\ cRpcFailed = FALSE
    /\ cErr = ""

ResIdle ==
    /\ resOp = "none"
    /\ resPc = "idle"
    /\ resId = ""
    /\ resStatus = ""
    /\ resState = NoConfig
    /\ resConfig = NoConfig
    /\ resChanged = {}
    /\ remoteStatus = "none"
    /\ resRequests = {}
    /\ resErr = ""
    /\ fundFailed = FALSE
    /\ waitPolls = 0

FlowsIdle ==
    /\ client = ClientStruct
    /\ fl = [f \in Flows |-> FlowReturn(FlowStart(f, 0), "idle", "")]
    /\ reqLog = [f \in Flows |-> {}]
    /\ hist = [f \in Flows |-> <<>>]

\* SubmitJobDirectly called with any content address and timeout.
InitJob ==
    /\ ipfsHash \in IpfsInputs
    /\ timeout \in TimeoutInputs
    /\ jobPc = "prepare"
    /\ buildResult = NotBuilt
    /\ jobSigned = 0
    /\ jobSent = <<>>
    /\ jobErr = ""
    /\ FundIdle
    /\ RetryIdle
    /\ WaitIdle
    /\ ConfIdle
    /\ ResIdle
    /\ FlowsIdle

NextJob ==
    \/ (JobPrepare /\ UNCHANGED <<fundVars, retryVars, waitVars, confVars, resVars, flowVars>>)
    \/ (JobBuildInstruction /\ UNCHANGED <<fundVars, retryVars, waitVars, confVars, resVars, flowVars>>)
    \/ (JobSign /\ UNCHANGED <<fundVars, retryVars, waitVars, confVars, resVars, flowVars>>)
    \/ (JobSend /\ UNCHANGED <<fundVars, retryVars, waitVars, confVars, resVars, flowVars>>)

SpecJob == InitJob /\ [][NextJob]_vars

\* FundVault called for any chain state.
InitFund ==
    /\ rpcURL \in BOOLEAN
    /\ marketAccount \in MarketInputs
    /\ walletLamports \in WalletBalances
    /\ walletNOS \in WalletNOSInputs
    /\ destATAExists \in BOOLEAN
    /\ vaultBalance = [SOL |-> 0, NOS |-> 0]
    /\ fvPc = "vault_balance"
    /\ priceRead = NoRead
    /\ walletRead1 = NoRead
    /\ walletRead2 = NoRead
    /\ solNeeded = SolTarget
    /\ nosNeeded = 0
    /\ instructions = <<>>
    /\ blockhashes = 0
    /\ fundSent = <<>>
    /\ fundSigned = 0
    /\ confirmCalls = 0
    /\ tokenLookups = NoLookups
    /\ fvErr = ""
    /\ envSteps = 0
    /\ JobIdle
    /\ RetryIdle
    /\ WaitIdle
    /\ ConfIdle
    /\ ResIdle
    /\ FlowsIdle

NextFund ==
    \/ (FV_GetVaultBalance /\ UNCHANGED <<jobVars, retryVars, waitVars, confVars, resVars, flowVars>>)
    \/ (FV_QueryMarket /\ UNCHANGED <<jobVars, retryVars, waitVars, confVars, resVars, flowVars>>)
    \/ (FV_AdaptSOL /\ UNCHANGED <<jobVars, retryVars, waitVars, confVars, resVars, flowVars>>)
    \/ (FV_Decide /\ UNCHANGED <<jobVars, retryVars, waitVars, confVars, resVars, flowVars>>)
    \/ (TV_AddSOL /\ UNCHANGED <<jobVars, retryVars, waitVars, confVars, resVars, flowVars>>)
    \/ (TV_AddNOS /\ UNCHANGED <<jobVars, retryVars, waitVars, confVars, resVars, flowVars>>)
    \/ (TV_BuildAndSign /\ UNCHANGED <<jobVars, retryVars, waitVars, confVars, resVars, flowVars>>)
    \/ (TV_Send /\ UNCHANGED <<jobVars, retryVars, waitVars, confVars, resVars, flowVars>>)
    \/ (TV_Confirm /\ UNCHANGED <<jobVars, retryVars, waitVars, confVars, resVars, flowVars>>)
    \/ (FV_UpdateVaultBalance /\ UNCHANGED <<jobVars, retryVars, waitVars, confVars, resVars, flowVars>>)
    \/ (WalletSpend /\ UNCHANGED <<jobVars, retryVars, waitVars, confVars, resVars, flowVars>>)

SpecFund == InitFund /\ [][NextFund]_vars

\* Either of the two operations that build, sign and submit a transaction:
\* SubmitJobDirectly (job posting) or FundVault (vault top-up).
InitTx == InitJob \/ InitFund

NextTx == NextJob \/ NextFund

SpecTx == InitTx /\ [][NextTx]_vars

\* StartDeploymentWithRetry called with any attempt budget.
InitRetry ==
    /\ maxRetries \in MinRetries..MaxRetriesBound
    /\ attempt = 1
    /\ restartAttempt = 0
    /\ rPc = "begin"
    /\ deployment = NoDeployment
    /\ startReqs = 0
    /\ outerStarts = 0
    /\ statusReqs = 0
    /\ restartReqs = 0
    /\ restartsThisAttempt = 0
    /\ sawExact60 = FALSE
    /\ sawExact60Early = FALSE
    /\ rResult = NoResult
    /\ fallbackOk = "none"
    /\ JobIdle
    /\ FundIdle
    /\ WaitIdle
    /\ ConfIdle
    /\ ResIdle
    /\ FlowsIdle

NextRetry ==
    \/ (R_Begin /\ UNCHANGED <<jobVars, fundVars, waitVars, confVars, resVars, flowVars>>)
    \/ (R_Start /\ UNCHANGED <<jobVars, fundVars, waitVars, confVars, resVars, flowVars>>)
    \/ (R_Status /\ UNCHANGED <<jobVars, fundVars, waitVars, confVars, resVars, flowVars>>)
    \/ (R_Restart /\ UNCHANGED <<jobVars, fundVars, waitVars, confVars, resVars, flowVars>>)
    \/ (R_FallbackStart /\ UNCHANGED <<jobVars, fundVars, waitVars, confVars, resVars, flowVars>>)
    \/ (R_Cooldown /\ UNCHANGED <<jobVars, fundVars, waitVars, confVars, resVars, flowVars>>)

SpecRetry == InitRetry /\ [][NextRetry]_vars

\* The same call when every request is answered and every sleep ends, so the
\* goroutine running StartDeploymentWithRetry always takes its next step.
SpecRetryFair == SpecRetry /\ WF_vars(NextRetry)

\* resourceNosanaJobCreate after StartDeploymentWithRetry returned a deployment
\* (lines 613-625): the ID is set and the status attribute holds its status.
InitWait ==
    /\ waitForCompletion \in BOOLEAN
    /\ completionTimeout \in CompletionTimeouts
    /\ wPc = "started"
    /\ now = 0
    /\ tickReady = FALSE
    /\ nextTick = TickPeriod
    /\ dStatus \in Statuses
    /\ idSet = TRUE
    /\ retryCount = 0
    /\ cooldowns = 0
    /\ autoRestarts = 0
    /\ wErr = ""
    /\ pollCount = 0
    /\ leadingNonStable = 0
    /\ allNonStable = TRUE
    /\ lastPoll = "none"
    /\ errorAfterBudget = FALSE
    /\ exitStatus = ""
    /\ JobIdle
    /\ FundIdle
    /\ RetryIdle
    /\ ConfIdle
    /\ ResIdle
    /\ FlowsIdle

NextWait ==
    \/ (W_Enter /\ UNCHANGED <<jobVars, fundVars, retryVars, confVars, resVars, flowVars>>)
    \/ (W_Wait /\ UNCHANGED <<jobVars, fundVars, retryVars, confVars, resVars, flowVars>>)
    \/ (W_Timeout /\ UNCHANGED <<jobVars, fundVars, retryVars, confVars, resVars, flowVars>>)
    \/ (W_Poll /\ UNCHANGED <<jobVars, fundVars, retryVars, confVars, resVars, flowVars>>)
    \/ (W_Cooldown /\ UNCHANGED <<jobVars, fundVars, retryVars, confVars, resVars, flowVars>>)
    \/ (W_AutoRestart /\ UNCHANGED <<jobVars, fundVars, retryVars, confVars, resVars, flowVars>>)
    \/ (W_Read /\ UNCHANGED <<jobVars, fundVars, retryVars, confVars, resVars, flowVars>>)

SpecWait == InitWait /\ [][NextWait]_vars

\* waitForConfirmation called for a signature in any ledger state (a transaction
\* that was submitted before may be confirmed already).
InitConfirm ==
    /\ sigStatus \in SigStatuses
    /\ sigAtStart = sigStatus
    /\ cPc = "select"
    /\ cNow = 0
    /\ cTickReady = FALSE
    /\ cNextTick = ConfirmTickPeriod
    /\ cLastPoll = NoPoll
    /\ cPolls = 0
    /\ cRpcFailed = FALSE
    /\ cErr = ""
    /\ JobIdle
    /\ FundIdle
    /\ RetryIdle
    /\ WaitIdle
    /\ ResIdle
    /\ FlowsIdle

NextConfirm ==
    \/ (WC_Wait /\ UNCHANGED <<jobVars, fundVars, retryVars, waitVars, resVars, flowVars>>)
    \/ (WC_Timeout /\ UNCHANGED <<jobVars, fundVars, retryVars, waitVars, resVars, flowVars>>)
    \/ (WC_Poll /\ UNCHANGED <<jobVars, fundVars, retryVars, waitVars, resVars, flowVars>>)
    \/ (LedgerAdvance /\ UNCHANGED <<jobVars, fundVars, retryVars, waitVars, resVars, flowVars>>)

SpecConfirm == InitConfirm /\ [][NextConfirm]_vars

\* A resource that is not in the state yet; Terraform calls its handlers one
\* after the other.
InitResource ==
    /\ ResIdle
    /\ FlowsIdle
    /\ JobIdle
    /\ FundIdle
    /\ RetryIdle
    /\ WaitIdle
    /\ ConfIdle

NextResource ==
    \/ (RC_Parse /\ UNCHANGED <<jobVars, fundVars, retryVars, waitVars, confVars, flowVars>>)
    \/ (RC_Upload /\ UNCHANGED <<jobVars, fundVars, retryVars, waitVars, confVars, flowVars>>)
    \/ (RC_CreateDeployment /\ UNCHANGED <<jobVars, fundVars, retryVars, waitVars, confVars, flowVars>>)
    \/ (RC_FundVault /\ UNCHANGED <<jobVars, fundVars, retryVars, waitVars, confVars, flowVars>>)
    \/ (RC_Start /\ UNCHANGED <<jobVars, fundVars, retryVars, waitVars, confVars, flowVars>>)
    \/ (RC_WaitPoll /\ UNCHANGED <<jobVars, fundVars, retryVars, waitVars, confVars, flowVars>>)
    \/ (RC_WaitEnd /\ UNCHANGED <<jobVars, fundVars, retryVars, waitVars, confVars, flowVars>>)
    \/ (RC_Read /\ UNCHANGED <<jobVars, fundVars, retryVars, waitVars, confVars, flowVars>>)
    \/ (RS_Read /\ UNCHANGED <<jobVars, fundVars, retryVars, waitVars, confVars, flowVars>>)
    \/ (RS_Update /\ UNCHANGED <<jobVars, fundVars, retryVars, waitVars, confVars, flowVars>>)
    \/ (RS_Delete /\ UNCHANGED <<jobVars, fundVars, retryVars, waitVars, confVars, flowVars>>)
    \/ (RemoteAdvance /\ UNCHANGED <<jobVars, fundVars, retryVars, waitVars, confVars, flowVars>>)

SpecResource == InitResource /\ [][NextResource]_vars

\* Two calls made on the same client, each with its own maxRetries.
InitFlows ==
    /\ client = ClientStruct
    /\ \E m1 \in FlowRetries, m2 \in FlowRetries :
          fl = [f \in Flows |-> FlowStart(f, IF f = 1 THEN m1 ELSE m2)]
    /\ reqLog = [f \in Flows |-> {}]
    /\ hist = [f \in Flows |-> <<>>]
    /\ JobIdle
    /\ FundIdle
    /\ RetryIdle
    /\ WaitIdle
    /\ ConfIdle
    /\ ResIdle

NextFlows ==
    \/ ((\E f \in Flows : F_Begin(f))
        /\ UNCHANGED <<jobVars, fundVars, retryVars, waitVars, confVars, resVars>>)
    \/ ((\E f \in Flows : F_Start(f))
        /\ UNCHANGED <<jobVars, fundVars, retryVars, waitVars, confVars, resVars>>)
    \/ ((\E f \in Flows : F_Status(f))
        /\ UNCHANGED <<jobVars, fundVars, retryVars, waitVars, confVars, resVars>>)
    \/ ((\E f \in Flows : F_Restart(f))
        /\ UNCHANGED <<jobVars, fundVars, retryVars, waitVars, confVars, resVars>>)
    \/ ((\E f \in Flows : F_FallbackStart(f))
        /\ UNCHANGED <<jobVars, fundVars, retryVars, waitVars, confVars, resVars>>)
    \/ ((\E f \in Flows : F_Cooldown(f))
        /\ UNCHANGED <<jobVars, fundVars, retryVars, waitVars, confVars, resVars>>)

SpecFlows == InitFlows /\ [][NextFlows]_vars

(***************************************************************************)
(*                               Claims                                    *)
(***************************************************************************)

ValidAddress == ipfsHash.ok /\ Len(ipfsHash.bytes) >= 34
Built == buildResult # NotBuilt

\* C1: for every content address that decodes to at least 34 bytes and every
\* timeout, the instruction buildNosanaListInstruction returns has exactly 9
\* accounts: job (writable, signer), market (writable), run (writable, signer),
\* wallet token account (writable), vault token account (writable), payer =
\* wallet (writable, signer), authority = wallet (signer, read-only), token
\* program (read-only), system program (read-only), in this order.
C1_AccountList ==
    (Built /\ ValidAddress) =>
        /\ buildResult.err = ""
        /\ Len(buildResult.ins.Accounts) = 9
        /\ buildResult.ins.Accounts =
             << [PublicKey |-> "job", IsWritable |-> TRUE, IsSigner |-> TRUE],
                [PublicKey |-> "market", IsWritable |-> TRUE, IsSigner |-> FALSE],
                [PublicKey |-> "run", IsWritable |-> TRUE, IsSigner |-> TRUE],
                [PublicKey |-> "user-token-account", IsWritable |-> TRUE, IsSigner |-> FALSE],
                [PublicKey |-> "vault-pda", IsWritable |-> TRUE, IsSigner |-> FALSE],
                [PublicKey |-> "wallet", IsWritable |-> TRUE, IsSigner |-> TRUE],
                [PublicKey |-> "wallet", IsWritable |-> FALSE, IsSigner |-> TRUE],
                [PublicKey |-> "token-program", IsWritable |-> FALSE, IsSigner |-> FALSE],
                [PublicKey |-> "system-program", IsWritable |-> FALSE, IsSigner |-> FALSE] >>

C1_Witness == Built /\ ValidAddress /\ timeout = 3600 /\ jobPc = "returned" /\ Len(jobSent) = 1

\* C2: for every content address that does not decode or decodes to fewer than
\* 34 bytes, buildNosanaListInstruction returns an error and no instruction,
\* and buildAndSubmitJobTransaction returns an error having signed and sent
\* nothing.
C2_ShortAddressRejected ==
    (Built /\ ~ValidAddress) =>
        /\ buildResult.err # ""
        /\ buildResult.ins = NoInstruction
        /\ jobPc = "returned"
        /\ jobErr = "failed to build instruction"
        /\ jobSigned = 0
        /\ jobSent = <<>>

C2_Witness == Built /\ ipfsHash.ok /\ Len(ipfsHash.bytes) = 33 /\ jobPc = "returned"

\* C3: for a valid input the payload is exactly 48 bytes: the 8-byte method
\* selector, then the decoded bytes at (0-based) positions 2..33 verbatim, then
\* the timeout as a little-endian two's-complement 64-bit integer; nothing else
\* of the input (in particular no decoded byte at position 34 or beyond) enters it.
C3_PayloadLayout ==
    (Built /\ ValidAddress) =>
        LET data == buildResult.ins.Data
        IN  /\ Len(data) = 48
            /\ SubSeq(data, 1, 8) = <<54, 174, 193, 67, 17, 41, 132, 38>>
            /\ \A i \in 1..32 : data[8 + i] = ipfsHash.bytes[2 + i]
            /\ data[41] = timeout % 256
            /\ data[42] = (timeout \div 256) % 256
            /\ data[43] = (timeout \div 65536) % 256
            /\ data[44] = (timeout \div 16777216) % 256
            /\ \A i \in 45..48 : data[i] = IF timeout < 0 THEN 255 ELSE 0

C3_Witness ==
    Built /\ ValidAddress /\ Len(ipfsHash.bytes) > 34 /\ timeout = 16909060
          /\ buildResult.ins.Data[41] = 4 /\ buildResult.ins.Data[44] = 1

NoKind(kinds) ==
    /\ \A i \in DOMAIN instructions : instructions[i].Kind \notin kinds
    /\ \A t \in DOMAIN fundSent :
          \A i \in DOMAIN fundSent[t] : fundSent[t][i].Kind \notin kinds

\* C4: in FundVault, when the market account's price field reads 0 the planned
\* token amount is 0 whatever the wallet's native balance, and no token-transfer
\* or create-account instruction is built.
C4_FreeMarketNoToken ==
    (priceRead = 0) =>
        /\ nosNeeded = 0
        /\ NoKind({"TransferChecked", "Create"})

C4_Witness ==
    /\ priceRead = 0
    /\ walletLamports = 10000000
    /\ walletNOS.amount = 5000000
    /\ fvPc = "returned"
    /\ Len(fundSent) = 1

\* C5: in FundVault, when the market price is non-zero and the wallet's native
\* balance read for the token check is below 3,000,000 lamports (0.003 native),
\* the planned token amount is 0 and no token transfer is built.
C5_BelowThresholdDeferred ==
    (priceRead > 0 /\ walletRead1 # NoRead /\ walletRead1 < 3000000) =>
        /\ nosNeeded = 0
        /\ NoKind({"TransferChecked"})

C5_Witness ==
    /\ priceRead = 2000000
    /\ walletRead1 = 2999999
    /\ walletNOS.amount = 5000000
    /\ fvPc = "returned"
    /\ Len(fundSent) = 1

TokenPlanned == fvPc \notin {"idle", "vault_balance", "query_market"}

\* C6 as stated: with a non-zero price the planned token amount equals the price
\* only if the wallet balance strictly exceeds the threshold; at a balance equal
\* to the threshold the planned token amount is 0.
C6_StrictlyAbove ==
    (TokenPlanned /\ priceRead > 0) =>
        /\ (nosNeeded = priceRead) => (walletRead1 # NoRead /\ walletRead1 > 3000000)
        /\ (walletRead1 = 3000000) => (nosNeeded = 0)

\* C6 amended: with a non-zero price the planned token amount equals the price
\* exactly when the wallet balance was read and is at least the threshold
\* (3,000,000 lamports), the threshold itself included; otherwise it is 0.
C6_AtLeastThreshold ==
    (TokenPlanned /\ priceRead > 0) =>
        /\ (nosNeeded = priceRead) <=> (walletRead1 # NoRead /\ walletRead1 >= 3000000)
        /\ (nosNeeded # priceRead) => (nosNeeded = 0)

C6_Witness == TokenPlanned /\ priceRead = 2000000 /\ walletRead1 = 3000000 /\ nosNeeded = 2000000

NativePlanned == fvPc \notin {"idle", "vault_balance", "query_market", "adapt_sol"}

\* C7: when the wallet balance can be read, the planned native amount is
\* min(3,000,000, balance - 100,000) lamports; if that is <= 0 FundVault returns
\* the insufficient-SOL error and builds and submits nothing.
C7_NativePlan ==
    (NativePlanned /\ walletRead2 # NoRead) =>
        LET m == IF walletRead2 - 100000 < 3000000 THEN walletRead2 - 100000 ELSE 3000000
        IN  IF m <= 0
            THEN /\ fvPc = "returned"
                 /\ fvErr = "insufficient SOL for transaction fees"
                 /\ instructions = <<>>
                 /\ blockhashes = 0
                 /\ fundSent = <<>>
            ELSE /\ solNeeded = m
                 /\ fvErr # "insufficient SOL for transaction fees"

C7_Witness ==
    /\ walletRead2 = 1000000
    /\ solNeeded = 900000
    /\ fvPc = "returned"
    /\ Len(fundSent) = 1
    /\ fundSent[1][1].Amount = 900000

C7_WitnessInsufficient ==
    walletRead2 = 100000 /\ fvPc = "returned" /\ fvErr = "insufficient SOL for transaction fees"

\* C8: when the market price is non-zero and the token amount is deferred to 0
\* because the wallet's native balance is below the threshold, the funding
\* operation fails with an insufficient-funds error and builds and submits no
\* transfer.
C8_DeferredFailsFast ==
    (priceRead > 0 /\ walletRead1 # NoRead /\ walletRead1 < 3000000) =>
        /\ instructions = <<>>
        /\ fundSent = <<>>
        /\ (fvPc = "returned") => (fvErr # "")

Scenario9 ==
    /\ rpcURL
    /\ marketAccount = [ok |-> TRUE, data |-> MarketData(2000000)]
    /\ walletLamports = 10000000
    /\ walletNOS = [exists |-> TRUE, dataLen |-> 165, amount |-> 5000000]
    /\ vaultBalance = [SOL |-> 0, NOS |-> 0]
    /\ destATAExists

\* C9: with market price 2.0 NOS, a wallet of 0.01 SOL and 5.0 NOS, an unfunded
\* vault and an existing destination token account, FundVault plans 0.003 SOL
\* and 2.0 NOS, and TopupVault builds exactly 2 instructions: the native
\* transfer of 3,000,000 lamports, then the token transfer of 2,000,000 units.
\* The scenario is one in which the balance reads and the two token account
\* lookups are answered.
C9_EndToEnd ==
    /\ (Scenario9 /\ NativePlanned /\ walletRead1 # NoRead /\ walletRead2 # NoRead) =>
          /\ solNeeded = 3000000
          /\ nosNeeded = 2000000
          /\ fvPc # "returned" \/ fvErr # "" \/ Len(fundSent) = 1
    /\ (Scenario9 /\ fvPc \in {"execute", "send", "confirm", "update_balance"}
                  /\ walletRead1 # NoRead /\ walletRead2 # NoRead
                  /\ tokenLookups = [src |-> "found", dst |-> "found"]) =>
          /\ Len(instructions) = 2
          /\ instructions[1].Kind = "Transfer"
          /\ instructions[1].Amount = 3000000
          /\ instructions[1].Accounts[1].PublicKey = "wallet"
          /\ instructions[1].Accounts[2].PublicKey = "vault"
          /\ instructions[2].Kind = "TransferChecked"
          /\ instructions[2].Amount = 2000000
    /\ (Scenario9 /\ walletRead1 # NoRead /\ walletRead2 # NoRead
                  /\ tokenLookups = [src |-> "found", dst |-> "found"]) =>
          \A t \in DOMAIN fundSent : fundSent[t] = instructions /\ Len(fundSent[t]) = 2

C9_Witness ==
    Scenario9 /\ walletRead1 = 10000000 /\ walletRead2 = 10000000
              /\ tokenLookups = [src |-> "found", dst |-> "found"]
              /\ fvPc = "returned" /\ fvErr = "" /\ Len(fundSent) = 1

\* C10 as stated: whenever StartDeploymentWithRetry has observed the deployment
\* in ERROR with the exact 60 s phrase, it has issued at least one restart
\* request by the time it returns, whatever the attempt budget.
C10_RestartForEveryBudget ==
    (rPc = "returned" /\ sawExact60) => restartReqs >= 1

\* C10 amended: whenever StartDeploymentWithRetry observes the deployment in
\* ERROR with the exact 60 s phrase on an attempt before the last one
\* (attempt < maxRetries), it issues a restart request during that attempt, so
\* at least one before it returns; on the last attempt it returns without one.
C10_RestartWhileAttemptsRemain ==
    /\ (rPc = "returned" /\ sawExact60Early) => restartReqs >= 1
    /\ (rPc \in {"fallback", "cooldown"} /\ ErrorWithExact60(deployment)) =>
          restartsThisAttempt >= 1
    /\ (rPc = "returned" /\ rResult.err = "" /\ ErrorWithExact60(rResult.dep)) =>
          (attempt = maxRetries /\ restartsThisAttempt = 0)

C10_Witness ==
    rPc = "returned" /\ sawExact60Early /\ restartReqs >= 1 /\ maxRetries = 2

\* C11: when no ERROR deployment observed by StartDeploymentWithRetry carries an
\* event whose message contains "Transaction was not confirmed in 60.00
\* seconds", the number of POST /restart requests is zero at every point of the
\* call (the outer loop may still start the deployment again after a cooldown).
C11_NoSignatureNoRestart ==
    (~sawExact60) => (restartReqs = 0 /\ rPc \notin {"restart", "fallback"})

C11_Witness ==
    /\ rPc = "returned"
    /\ ~sawExact60
    /\ deployment.Status = "ERROR"
    /\ deployment.Events = <<EvNotConfirmed30>>
    /\ attempt >= 2
    /\ statusReqs >= 2
    /\ restartReqs = 0

\* C12 as stated: StartDeploymentWithRetry never returns a deployment whose
\* status is ERROR together with a nil error.
C12_ErrorNeverSuccess ==
    (rPc = "returned" /\ rResult.err = "") => rResult.dep.Status # "ERROR"

Max0(n) == IF n > 0 THEN n ELSE 0

\* C13: for every maxRetries and every sequence of service responses,
\* StartDeploymentWithRetry returns, and the outer loop sends at most
\* maxRetries POST /start requests (none when maxRetries <= 0).
C13_Terminates ==
    /\ <>(rPc = "returned")
    /\ [](outerStarts <= Max0(maxRetries))

C13_Witness ==
    /\ rPc = "returned"
    /\ maxRetries = 3
    /\ outerStarts = 3
    /\ rResult.err = "failed to start deployment after all attempts"
    /\ statusReqs = 2

\* C14: with wait_for_completion set and a completion timeout longer than three
\* poll intervals, when the polls of the first two ticks return DRAFT, STARTING
\* or STOPPING and the poll of the third tick returns RUNNING, the loop ends at
\* that third poll, no timeout error is returned, and the status attribute at
\* that point is RUNNING.
C14_ThirdTickRunning ==
    (/\ waitForCompletion
     /\ completionTimeout > 3 * 5
     /\ pollCount = 3
     /\ leadingNonStable = 2
     /\ lastPoll = "RUNNING") =>
        /\ wPc \in {"read", "returned"}
        /\ wErr # WErrTimeout
        /\ exitStatus = "RUNNING"
        /\ (wPc = "read" => dStatus = "RUNNING")

C14_Witness ==
    /\ waitForCompletion
    /\ completionTimeout = 16
    /\ pollCount = 3
    /\ leadingNonStable = 2
    /\ lastPoll = "RUNNING"
    /\ now = 15
    /\ wPc = "read"
    /\ dStatus = "RUNNING"

\* C15: the wait loop is left towards a return without error only at a poll
\* that observed RUNNING, STOPPED, ARCHIVED, ERROR or INSUFFICIENT_FUNDS; after
\* a poll that observed DRAFT, STARTING or STOPPING the loop is still running,
\* unless the completion timeout ended it with its error.
C15_ExitOnlyOnStable ==
    /\ (waitForCompletion /\ (wPc = "read" \/ (wPc = "returned" /\ wErr = ""))) =>
          /\ lastPoll \in {"RUNNING", "STOPPED", "ARCHIVED", "ERROR", "INSUFFICIENT_FUNDS"}
          /\ exitStatus = lastPoll
    /\ lastPoll \in {"DRAFT", "STARTING", "STOPPING"} =>
          (wPc = "select" \/ (wPc = "returned" /\ wErr = WErrTimeout))

C15_Witness ==
    /\ waitForCompletion
    /\ wPc = "returned"
    /\ wErr = ""
    /\ exitStatus = "INSUFFICIENT_FUNDS"
    /\ leadingNonStable = 3
    /\ pollCount = 4

C17_ExhaustedRestartsFail ==
    (errorAfterBudget /\ wPc = "returned" /\ now < completionTimeout) => wErr # ""

\* C18: waitForConfirmation returns one of three outcomes: nil, only when its
\* last status query reported confirmed or finalized without an error; the
\* transaction-failed error, only when its last status query reported a status
\* carrying an error, whatever the confirmation level of that status; the
\* timeout error, only when 60 s have passed and no query reported either.
C18_ThreeOutcomes ==
    cPc = "returned" =>
        /\ cErr \in {"", CErrFailed, CErrTimeout}
        /\ cErr = "" =>
              /\ cLastPoll.kind = "status"
              /\ cLastPoll.level \in {"confirmed", "finalized"}
              /\ ~cLastPoll.err
        /\ cErr = CErrFailed =>
              /\ cLastPoll.kind = "status"
              /\ cLastPoll.level \in {"processed", "confirmed", "finalized"}
              /\ cLastPoll.err
        /\ cErr = CErrTimeout =>
              /\ cNow >= 60
              /\ ~(cLastPoll.kind = "status" /\ cLastPoll.err)
              /\ ~(cLastPoll.kind = "status"
                   /\ cLastPoll.level \in {"confirmed", "finalized"})

C18_Witness ==
    /\ cPc = "returned"
    /\ cErr = CErrFailed
    /\ cLastPoll = [kind |-> "status", level |-> "confirmed", err |-> TRUE]
    /\ sigAtStart.level = "none"

ConfirmedAtStart == sigAtStart.level \in {"confirmed", "finalized"} /\ ~sigAtStart.err

C21_SourceMissingFails ==
    (nosNeeded > 0 /\ tokenLookups.src = "not_found") =>
        /\ fundSent = <<>>
        /\ (fvPc = "returned") => (fvErr # "")

\* C22: a funding call fetches at most one blockhash and sends at most one
\* transaction; a transaction is sent only with a blockhash fetched, and what
\* is sent is the whole instruction slice of the call, so a native transfer and
\* a token transfer of one call are in the same transaction.
C22_OneBatch ==
    /\ blockhashes <= 1
    /\ Len(fundSent) <= 1
    /\ fundSent # <<>> => blockhashes = 1
    /\ \A t \in DOMAIN fundSent : fundSent[t] = instructions
    /\ fvPc = "returned" /\ fvErr = "" /\ instructions # <<>> => fundSent = <<instructions>>

C22_Witness ==
    /\ fvPc = "returned"
    /\ fvErr = ""
    /\ blockhashes = 1
    /\ Len(fundSent) = 1
    /\ Len(fundSent[1]) = 3
    /\ fundSent[1][1].Kind = "Transfer"
    /\ fundSent[1][2].Kind = "Create"
    /\ fundSent[1][3].Kind = "TransferChecked"

HasKind(ins, kind) == \E i \in DOMAIN ins : ins[i].Kind = kind

\* C25 as stated: whenever addNOSInstruction has added the token transfer, the
\* batch holds a create-associated-account instruction if and only if the
\* destination's token account does not exist on chain, and that instruction
\* stands before the token transfer.
C25_CreateIffMissing ==
    HasKind(instructions, "TransferChecked") =>
        /\ HasKind(instructions, "Create") <=> ~destATAExists
        /\ \A i, j \in DOMAIN instructions :
              (instructions[i].Kind = "Create" /\ instructions[j].Kind = "TransferChecked")
                  => i < j

\* C26: the native balance addSOLInstruction compares with the amount is the one
\* on chain when the instruction is built, not the planner's earlier read: a
\* transfer instruction is in the batch only if the balance at that time covers
\* it, and when addSOLInstruction fails, FundVault returns the error with an
\* empty batch, no blockhash fetched and nothing sent.
C26_BalanceRecheck ==
    /\ (fvPc = "returned"
        /\ fvErr = "failed to topup vault: failed to add SOL instruction") =>
          (instructions = <<>> /\ fundSent = <<>> /\ blockhashes = 0)
    /\ (instructions # <<>> /\ instructions[1].Kind = "Transfer") =>
          instructions[1].Amount <= walletLamports
    /\ (fvPc \in {"add_nos", "execute", "send", "confirm", "update_balance"}
        /\ solNeeded > 0) =>
          (instructions # <<>> /\ instructions[1].Kind = "Transfer")

C26_Witness ==
    /\ fvPc = "returned"
    /\ fvErr = "failed to topup vault: failed to add SOL instruction"
    /\ walletRead2 = 10000000
    /\ solNeeded = 3000000
    /\ walletLamports = 1000000
    /\ envSteps = 1
    /\ fundSent = <<>>

\* C27: within one outer attempt the nested sequence sends at most 3 restart
\* requests; it runs only while outer attempts remain (attempt < maxRetries);
\* a start request that is not the outer loop's own is sent only from the
\* fallback position, and that position is entered only by a restart request
\* that has just failed, so there are never more fallback starts than restarts.
C27_NestedRestartBounds ==
    /\ [](/\ restartsThisAttempt <= MaxRestartAttempts
          /\ rPc \in {"restart", "fallback"} => attempt < maxRetries
          /\ restartsThisAttempt > 0 => attempt < maxRetries
          /\ startReqs - outerStarts <= restartReqs
          /\ rPc = "fallback" => restartsThisAttempt = restartAttempt)
    /\ [][/\ (startReqs' = startReqs + 1 /\ outerStarts' = outerStarts)
                => rPc = "fallback"
          /\ (rPc' = "fallback")
                => (rPc = "restart" /\ restartReqs' = restartReqs + 1)]_vars

C27_Witness ==
    /\ rPc = "cooldown"
    /\ restartsThisAttempt = 3
    /\ startReqs - outerStarts = 3
    /\ attempt = 1
    /\ maxRetries >= 2

\* C28: a poll of the wait loop that is answered writes the polled status to
\* the status attribute, whether the status is intermediate, stable, or the
\* ERROR that starts an automatic restart; a poll that fails leaves the
\* attribute as it was.  So inside the loop, and when the loop is left for the
\* final read, the attribute equals the status of the last answered poll.
C28_StatusFollowsPoll ==
    /\ []((wPc \in {"select", "cooldown", "restart", "read"} /\ lastPoll \in Statuses)
              => dStatus = lastPoll)
    /\ []((wPc \in {"select", "cooldown", "restart"} /\ lastPoll = "none")
              => pollCount = 0)
    /\ [][(wPc = "select" /\ tickReady /\ wPc' # "returned")
              => IF lastPoll' = "FAILED"
                 THEN dStatus' = dStatus
                 ELSE dStatus' = lastPoll' /\ lastPoll' \in Statuses]_vars

C28_Witness ==
    /\ wPc = "cooldown"
    /\ lastPoll = "ERROR"
    /\ dStatus = "ERROR"
    /\ leadingNonStable >= 1
    /\ pollCount >= 2

\* C29: one Create performs at most 3 automatic restarts in its wait loop, and
\* each restart call is entered only from the 45 s cooldown of the same
\* iteration: the cooldowns counted are one ahead of the restarts exactly while
\* a restart call is due, and at least 45 s pass between the poll that showed
\* the error and the restart call.
C29_ThreeRestartsAfterCooldown ==
    /\ [](/\ autoRestarts <= MaxAutoRetries
          /\ cooldowns <= MaxAutoRetries
          /\ cooldowns <= retryCount
          /\ cooldowns = (IF wPc = "restart" THEN autoRestarts + 1 ELSE autoRestarts)
          /\ wPc = "cooldown" => retryCount = cooldowns + 1)
    /\ [][/\ (autoRestarts' # autoRestarts)
                => (wPc = "restart" /\ autoRestarts' = autoRestarts + 1)
          /\ (wPc' = "restart")
                => (wPc = "cooldown" /\ now' >= now + CooldownSeconds
                    /\ cooldowns' = cooldowns + 1)]_vars

C29_Witness ==
    /\ autoRestarts = 3
    /\ cooldowns = 3
    /\ now >= 3 * CooldownSeconds
    /\ wPc = "select"

\* C23 as stated: an Update whose configuration changes replicas and timeout,
\* and nothing else, succeeds, and afterwards the stored replicas and timeout
\* equal the new values.
C23_UpdateInPlace ==
    (resOp = "update" /\ resPc = "done" /\ resChanged = {"replicas", "timeout"}) =>
        /\ resErr = ""
        /\ resState.replicas = resConfig.replicas
        /\ resState.timeout = resConfig.timeout

C30_FundingFailureStopsCreate ==
    (resOp = "create" /\ fundFailed) =>
        /\ "start" \notin resRequests
        /\ (resPc = "done") => (resErr # "")

\* C31 as stated: an operation that has handed a transaction to the RPC node
\* and returns without error has called waitForConfirmation for it; this is
\* required of FundVault and of the job posting of SubmitJobDirectly alike.
C31_SuccessOnlyAfterConfirmation ==
    /\ (fvPc = "returned" /\ fvErr = "" /\ fundSent # <<>>) => confirmCalls >= 1
    /\ (jobPc = "returned" /\ jobErr = "" /\ jobSent # <<>>) => confirmCalls >= 1

\* C32 as stated: a FundVault call of Create that has failed is followed by
\* another FundVault call; Create does not go on to the start request, or
\* return, straight from the failed attempt.
C32_FailedFundingRetried ==
    [][(resPc = "fund" /\ fundFailed') => resPc' = "fund"]_vars

\* C33: a Create that returns without error and with the resource ID set has
\* sent a GetDeployment request last, and the status it records is the status
\* the service gave in the answer to it; the STARTING written after the start
\* request stays only if the service answered STARTING.
C33_StatusFromLastRead ==
    /\ []((resOp = "create" /\ resPc = "done" /\ resErr = "" /\ resId # "")
              => ("get" \in resRequests /\ resStatus \in Statuses))
    /\ [][(resOp = "create" /\ resPc # "done" /\ resPc' = "done" /\ resErr' = ""
           /\ resId' # "")
              => (resPc = "read" /\ resStatus' = remoteStatus)]_vars

C33_Witness ==
    /\ resOp = "create"
    /\ resPc = "done"
    /\ resErr = ""
    /\ resId # ""
    /\ waitPolls = MaxWaitPolls
    /\ resStatus = "RUNNING"

\* C34 as stated: the wait loop sends no restart request once the completion
\* timeout has elapsed.
C34_NoRestartAfterTimeout ==
    [][(autoRestarts' = autoRestarts + 1) => now < completionTimeout]_vars

\* C36 as stated: a Create that returns an error after CreateDeploymentSDK
\* succeeded has the resource ID set.
C36_CreatedDeploymentKept ==
    (resOp = "create" /\ resPc = "done" /\ resErr # "" /\ "fund" \in resRequests)
        => resId # ""

\* C37 as stated: a read clears the resource ID only when the service has no
\* such deployment; a GetDeployment that fails while the service holds the
\* deployment leaves the ID as it was.
C37_ClearOnlyWhenNotFound ==
    [][(resId # "" /\ resId' = "" /\ resOp' # "delete") => remoteStatus = "none"]_vars

\* C38: for maxRetries <= 0 StartDeploymentWithRetry sends no start, status or
\* restart request and returns the error of line 415.  (The max_retries
\* attribute carries no ValidateFunc, so 0 and negative values reach the call.)
C38_NoBudgetNoRequests ==
    maxRetries <= 0 =>
        /\ startReqs = 0 /\ statusReqs = 0 /\ restartReqs = 0
        /\ rPc \in {"begin", "returned"}
        /\ rPc = "returned" =>
              rResult = [err |-> "deployment start failed after all attempts",
                         dep |-> NoDeployment]

C38_Witness ==
    /\ maxRetries <= 0
    /\ rPc = "returned"
    /\ rResult.err = "deployment start failed after all attempts"
    /\ startReqs = 0

\* C39: in the nested restart sequence a failed restart request is followed by
\* the direct start, and after the direct start the sequence goes on to the
\* next restart request whatever the direct start gave; the sequence ends only
\* by a restart request that succeeded or when 3 restart requests were sent.
C39_OnlyRestartSuccessEndsEarly ==
    /\ [](rPc = "fallback" => restartAttempt = restartsThisAttempt)
    /\ [][/\ (rPc = "fallback") =>
                (/\ startReqs' = startReqs + 1
                 /\ fallbackOk' \in {"ok", "failed"}
                 /\ rPc' = (IF restartsThisAttempt < MaxRestartAttempts
                            THEN "restart" ELSE "cooldown"))
          /\ (rPc = "restart") => rPc' \in {"cooldown", "fallback"}
          /\ (rPc' = "cooldown" /\ rPc = "restart")
                => restartsThisAttempt' <= MaxRestartAttempts]_vars

C39_Witness ==
    /\ rPc = "restart"
    /\ restartAttempt = 3
    /\ restartsThisAttempt = 2
    /\ restartReqs = 2
    /\ fallbackOk = "ok"

\* C35: with two StartDeploymentWithRetry calls for different deployments
\* running on one client, under every interleaving each call's start, restart
\* and status requests name its own deployment ID only; a step of one call
\* changes nothing of the other call and nothing of the client; and two calls
\* that have returned after the same maxRetries and the same responses to their
\* own requests have returned the same outcome, whatever the other call did.
C35_FlowsIndependent ==
    /\ [](\A f \in Flows : \A r \in reqLog[f] : r.id = FlowID(f))
    /\ [](\A f, g \in Flows :
              (/\ fl[f].pc = "returned" /\ fl[g].pc = "returned"
               /\ fl[f].maxRetries = fl[g].maxRetries
               /\ hist[f] = hist[g])
                  => (fl[f].err = fl[g].err /\ fl[f].status = fl[g].status))
    /\ [][/\ client' = client
          /\ \E f \in Flows : \A g \in Flows \ {f} :
                fl'[g] = fl[g] /\ reqLog'[g] = reqLog[g] /\ hist'[g] = hist[g]]_vars

C35_Witness ==
    /\ fl[1].pc = "returned"
    /\ fl[1].err = ""
    /\ fl[1].status = "RUNNING"
    /\ reqLog[1] = {[kind |-> "start", id |-> "depA"], [kind |-> "status", id |-> "depA"]}
    /\ fl[2].pc = "restart"
    /\ fl[2].restartAttempt = 2
    /\ [kind |-> "restart", id |-> "depB"] \in reqLog[2]

====
